---------------------------- MODULE Spec2Model ----------------------------
(***************************************************************************)
(* The soul of sandbox/old_lpc/soul.c: the verb registry (verbs, xverbs),  *)
(* the sentence parser webster, the verb reducer reduce_verb, the renderer *)
(* gloerp/feel and the command handler do_feel.                            *)
(*                                                                         *)
(* An LPC string is a sequence of atoms.  Words typed by the player,       *)
(* names, adverbs and messages are spelled character by character          *)
(* (<<"b","o","b">>), so that prefixes, a trailing comma or a quote can be *)
(* looked at.  The literal pieces and the placeholders of a verb template  *)
(* are one atom each (" \nHOW", "$", " at"): replace() and gloerp() only   *)
(* ever look for whole placeholders.  The LPC value 0 where a string is    *)
(* expected is NULL.                                                       *)
(***************************************************************************)
EXTENDS Integers, Sequences, FiniteSets, TLC

VARIABLES verbs, xverbs, adverbs, xadverbs, parsed_part, uncertain_part,
          unparsed_part, pc, cmd, res

vars == <<verbs, xverbs, adverbs, xadverbs, parsed_part, uncertain_part,
          unparsed_part, pc, cmd, res>>

-----------------------------------------------------------------------------
(* Bounds of the model.                                                    *)

\* the longest command typed between calls of add_verb and remove_verb,
\* in words
MaxWords == 3

\* the most words that follow the first word of a reply to a question of
\* the parser
MaxReply == 1

\* the most words that follow the verb of a command of several clauses
MaxFeelWords == 3

\* the most words that follow the verb of a command with quoted messages,
\* adverbs of several words and beginnings of adverbs
MaxProgressWords == 2

\* the most words that follow the verb of a command on pronouns
MaxPronounWords == 3

\* the most words that follow the verb of a command on adverbs
MaxAdverbWords == 2

\* the most words of a sentence that a reply completes: longer ones are
\* not typed
MaxSentence == 5

\* the most words that follow the verb of a command on targets
MaxTargetWords == 4

\* the words that follow a verb of each type
MaxShapeWords == 3

\* the most words that follow "suddenly", or the verb of a command that
\* may hold a word that makes no sense
MaxMetaWords == 3

\* the most null words between the verb and a word that makes no sense
MaxFiller == 12

\* the most words that follow the first word of a command that may be
\* the reply to a question of the parser
MaxReplyWords == 2

\* the most words that follow the verb of a command that may fail after
\* its first clause
MaxFailureWords == 3

\* the most words that follow the first word of a command whose clauses
\* gather targets, adverbs, a message and body parts
MaxClauseWords == 3

\* the most words that follow the verb of a command typed while other
\* objects add verbs and adverbs named like the beginning of a person
MaxPriorityWords == 2

\* the most words that follow the verb of a command on adverbs of
\* several words
MaxPhraseWords == 3

-----------------------------------------------------------------------------
(* Strings and arrays.                                                     *)

NULL == <<"NULL">>

SP == " "

Range(s) == {s[i] : i \in 1..Len(s)}

\* X - Y on arrays: every element of X that is not an element of Y
SUB_ARRAY(X, Y) == SelectSeq(X, LAMBDA x : x \notin Range(Y))

\* member_array(x, arr): the first index (from 0) of x in arr, or -1
member_array(x, arr) ==
  IF x \in Range(arr)
    THEN (CHOOSE i \in 1..Len(arr) : arr[i] = x /\ \A j \in 1..(i-1) : arr[j] # x) - 1
    ELSE -1

RECURSIVE implode(_, _)
implode(arr, del) ==
  IF Len(arr) = 0 THEN <<>>
  ELSE IF Len(arr) = 1 THEN arr[1]
  ELSE arr[1] \o del \o implode(Tail(arr), del)

\* the pieces of string a between the occurrences of the one-atom string b
RECURSIVE explode_from(_, _, _, _)
explode_from(a, b, i, cur) ==
  IF i > Len(a) THEN <<cur>>
  ELSE IF a[i] = b THEN <<cur>> \o explode_from(a, b, i + 1, <<>>)
  ELSE explode_from(a, b, i + 1, Append(cur, a[i]))

my_explode(a, b) == explode_from(a, b, 1, <<>>)

implode_nicely(dum, del) ==
  LET s == Len(dum) IN
  IF s = 0 THEN <<>>
  ELSE IF s = 1 THEN dum[1]
  ELSE IF s = 2 THEN dum[1] \o <<SP>> \o del \o <<SP>> \o dum[2]
  ELSE implode(SubSeq(dum, 1, s - 1), <<",", SP>>) \o <<SP>> \o del \o <<SP>> \o dum[s]

\* replace(X, Y, Z) where Y is one placeholder atom
RECURSIVE replace(_, _, _)
replace(X, Y, Z) ==
  IF Len(X) = 0 THEN <<>>
  ELSE (IF X[1] = Y THEN Z ELSE <<X[1]>>) \o replace(Tail(X), Y, Z)

\* a[0..strlen(b)-1] == b
starts_with(a, b) == Len(b) <= Len(a) /\ SubSeq(a, 1, Len(b)) = b

LowerChars ==
  {"a","b","c","d","e","f","g","h","i","j","k","l","m",
   "n","o","p","q","r","s","t","u","v","w","x","y","z"}

and_word == <<"a","n","d">>

-----------------------------------------------------------------------------
(* The words of the tables and of the parser, spelled out.                 *)

Word ==
  [smile |-> <<"s","m","i","l","e">>,
   ruffle |-> <<"r","u","f","f","l","e">>,
   wave |-> <<"w","a","v","e">>,
   bow |-> <<"b","o","w">>,
   ogle |-> <<"o","g","l","e">>,
   say |-> <<"s","a","y">>,
   zap |-> <<"z","a","p">>,
   bob |-> <<"b","o","b">>,
   carol |-> <<"c","a","r","o","l">>,
   box |-> <<"b","o","x">>,
   alice |-> <<"a","l","i","c","e">>,
   me |-> <<"m","e">>,
   myself |-> <<"m","y","s","e","l","f">>,
   all |-> <<"a","l","l">>,
   everybody |-> <<"e","v","e","r","y","b","o","d","y">>,
   everyone |-> <<"e","v","e","r","y","o","n","e">>,
   except |-> <<"e","x","c","e","p","t">>,
   but |-> <<"b","u","t">>,
   them |-> <<"t","h","e","m">>,
   him |-> <<"h","i","m">>,
   her |-> <<"h","e","r">>,
   it |-> <<"i","t">>,
   plainly |-> <<"p","l","a","i","n","l","y">>,
   at |-> <<"a","t">>,
   to |-> <<"t","o">>,
   before |-> <<"b","e","f","o","r","e">>,
   in |-> <<"i","n">>,
   on |-> <<"o","n">>,
   the |-> <<"t","h","e">>,
   with |-> <<"w","i","t","h">>,
   very |-> <<"v","e","r","y">>,
   quite |-> <<"q","u","i","t","e">>,
   barely |-> <<"b","a","r","e","l","y">>,
   extremely |-> <<"e","x","t","r","e","m","e","l","y">>,
   somewhat |-> <<"s","o","m","e","w","h","a","t">>,
   almost |-> <<"a","l","m","o","s","t">>,
   angrily |-> <<"a","n","g","r","i","l","y">>,
   happily |-> <<"h","a","p","p","i","l","y">>,
   sadly |-> <<"s","a","d","l","y">>,
   slowly |-> <<"s","l","o","w","l","y">>,
   hand |-> <<"h","a","n","d">>,
   head |-> <<"h","e","a","d">>,
   I |-> <<"I">>,
   amp |-> <<"&">>,
   nothing |-> <<"'","n","o","t","h","i","n","g">>,
   bo |-> <<"b","o">>,
   ang |-> <<"a","n","g">>,
   s |-> <<"s">>,
   sl |-> <<"s","l">>,
   pl |-> <<"p","l">>,
   hide |-> <<"h","i","d","e">>,
   pat |-> <<"p","a","t">>,
   sob |-> <<"s","o","b">>,
   blink |-> <<"b","l","i","n","k">>,
   kiss |-> <<"k","i","s","s">>,
   suddenly |-> <<"s","u","d","d","e","n","l","y">>,
   xyzzy |-> <<"x","y","z","z","y">>,
   qhi |-> <<"\"","h","i">>,
   yoq |-> <<"y","o","\"">>,
   hiq |-> <<"\"","h","i","\"">>,
   car |-> <<"c","a","r">>,
   c |-> <<"c">>,
   like |-> <<"l","i","k","e">>,
   a |-> <<"a">>,
   du |-> <<"d","u">>,
   like_a_duck |-> <<"l","i","k","e"," ","a"," ","d","u","c","k">>,
   like_a_dog |-> <<"l","i","k","e"," ","a"," ","d","o","g">>]

-----------------------------------------------------------------------------
(* The verb types and the tables set up by reset().                        *)

SIMP == 0

DEFA == 1

DEUX == 2

PERS == 3

QUAD == 4

PREV == 5

SHRT == 6

PHYS == 7

FULL == 8

\* A verb definition ({type, defaults, data...}) is the tuple
\* <<type, defaults, data...>>: verbdata[k] of the source is vd[k+1] here.
\* Defaults 0 is the empty array; a default that is 0 is NULL.
\* A slice of get_verbs(), one line of the source each.
get_verbs ==
  (Word.smile :> <<DEFA, <<Word.happily>>, <<>>, <<" at">> >>) @@
  (Word.wave  :> <<DEFA, <<Word.happily>>, <<>>, <<" at">> >>) @@
  (Word.bow   :> <<DEFA, <<>>, <<>>, <<" to">> >>) @@
  (Word.ogle  :> <<PREV, <<>>, <<>> >>) @@
  (Word.say   :> <<SIMP, <<NULL, Word.nothing>>, <<" \nHOW", " say", "$", " \nMSG", " \nAT">>, <<" to">> >>) @@
  (Word.hide  :> <<SIMP, <<>>, <<SP>> \o Word.hide \o <<"$", " \nHOW", " behind", " \nWHO">> >>) @@
  (Word.pat   :> <<PHYS, <<NULL, NULL, <<"on the head">> >>, <<>> >>) @@
  (Word.sob   :> <<SHRT, <<>>, <<>> >>) @@
  (Word.ruffle :> <<SIMP, <<>>, <<SP>> \o Word.ruffle \o <<"$", " \nPOSS", " hair", " \nHOW">> >>) @@
  (Word.blink :> <<PERS, <<>>, <<SP>> \o Word.blink \o <<"$", " \nHOW">>,
                   <<SP>> \o Word.blink \o <<"$", " \nHOW", " at", " \nWHO">> >>) @@
  (Word.kiss  :> <<DEUX, <<>>, <<SP>> \o Word.kiss \o <<" \nWHO", " \nHOW", " \nWHERE">>,
                   <<SP>> \o Word.kiss \o <<"e", "s", " \nWHO", " \nHOW", " \nWHERE">> >>)

\* the adverbs file read by low_get_adverbs(), in the order m_indices() lists it
soul_adverbs == <<Word.angrily, Word.happily, Word.plainly, Word.sadly, Word.slowly>>

\* the orders in which the driver may list the indices of the adverbs mapping
AdverbOrders ==
  { soul_adverbs,
    <<Word.slowly, Word.sadly, Word.plainly, Word.happily, Word.angrily>> }

get_how == {Word.very, Word.quite, Word.barely, Word.extremely, Word.somewhat, Word.almost}

get_bodydata ==
  (Word.hand :> <<"on the hand">>) @@
  (Word.head :> <<"on the head">>)

\* m[k] of a mapping: 0 (the empty tuple) when k is no index of m
lookup(m, k) == IF k \in DOMAIN m THEN m[k] ELSE <<>>

-----------------------------------------------------------------------------
(* The room: this_player() and all_inventory(environment(this_player())).  *)

this_player == "alice"

NoObject == "none"

all_inventory == <<"bob", "alice", "carol", "box">>

NAME(o) ==
  CASE o = "alice" -> Word.alice
    [] o = "bob"   -> Word.bob
    [] o = "carol" -> Word.carol
    [] OTHER       -> Word.box

CAP_NAME(o) ==
  CASE o = "alice" -> <<"A","l","i","c","e">>
    [] o = "bob"   -> <<"B","o","b">>
    [] o = "carol" -> <<"C","a","r","o","l">>
    [] OTHER       -> <<"b","o","x">>

ISLIVING(o) == o \in {"alice", "bob", "carol"}

ISVISIBLE(o) == TRUE

OBJECTIVE(o) ==
  CASE o = "bob" -> Word.him
    [] o \in {"alice", "carol"} -> Word.her
    [] OTHER -> Word.it

POSSESSIVE(o) ==
  CASE o = "bob" -> <<"h","i","s">>
    [] o \in {"alice", "carol"} -> Word.her
    [] OTHER -> <<"i","t","s">>

PRONOUN(o) ==
  CASE o = "bob" -> <<"h","e">>
    [] o \in {"alice", "carol"} -> <<"s","h","e">>
    [] OTHER -> Word.it

get_name(o) == NAME(o)

isplay(o) == ISLIVING(o) /\ ISVISIBLE(o)

get_persons == SelectSeq(all_inventory, isplay)

\* present(t, environment(this_player())): the object of the room that
\* answers to the name t
present(t) ==
  IF \E i \in 1..Len(all_inventory) : NAME(all_inventory[i]) = t
    THEN all_inventory[CHOOSE i \in 1..Len(all_inventory) :
                         /\ NAME(all_inventory[i]) = t
                         /\ \A j \in 1..(i-1) : NAME(all_inventory[j]) # t]
    ELSE NoObject

-----------------------------------------------------------------------------
(* Failures: what notify_fail() was last given when a handler returns 0.   *)
(*   NoVerb                "No verb?"                                      *)
(*   UnknownToken          "The <pos> word in that sentence doesn't ..."   *)
(*   AmbiguousToken        "Who do you mean?" / "What adverb was that?"    *)
(*                         followed by the candidates                      *)
(*   MissingBackReference  "Who?"                                          *)
(*   MissingTarget         "Need person for verb <word>."                  *)
(*   BadExcept             "That '<word>' doesn't look grammatically ..."  *)
(*   None                  notify_fail() was not called                    *)

Failure(kind, word, pos, cands) ==
  [kind |-> kind, word |-> word, pos |-> pos, cands |-> cands]

NoFailure == Failure("None", <<>>, 0, <<>>)

-----------------------------------------------------------------------------
(* reduce_verb: a closed clause and its verb definition to the texts of    *)
(* the clause, still holding the placeholders gloerp() fills in.           *)

\* sscanf(a,"%s\nWHO",c) || ... "\nPOSS" ... "\nTHEIR" ... "\nOBJ"
needs_person(a) ==
  \E i \in 1..Len(a) : a[i] \in {" \nWHO", " \nPOSS", " \nTHEIR", " \nOBJ"}

\* the default adverb of the verb is taken whatever the clause holds
default_adverb_always(verbdata, adverb) ==
  LET q == verbdata[2] IN
  IF Len(q) > 0 /\ q[1] # NULL THEN <<q[1]>> ELSE adverb

\* the defaults of the verb, taken for what the clause left empty
default_adverb(verbdata, adverb) ==
  LET q == verbdata[2] IN
  IF Len(adverb) = 0 /\ Len(q) > 0 /\ q[1] # NULL THEN <<q[1]>> ELSE adverb

default_mess_used(verbdata, mess) ==
  LET q == verbdata[2] IN mess = <<>> /\ Len(q) > 1 /\ q[2] # NULL

default_body(verbdata, body) ==
  LET q == verbdata[2] IN
  IF Len(body) = 0 /\ Len(q) > 2 /\ q[3] # NULL THEN <<q[3]>> ELSE body

\* the template of the types that mark the verb ending with $
simple_template(verb, verbdata, who) ==
  LET t == verbdata[1] IN
  CASE t = DEFA -> <<SP>> \o verb \o <<"$", " \nHOW", " \nAT">>
    [] t = PREV -> <<SP>> \o verb \o <<"$">> \o verbdata[3] \o <<" \nWHO", " \nHOW">>
    [] t = PHYS -> <<SP>> \o verb \o <<"$">> \o verbdata[3] \o <<" \nWHO", " \nHOW", " \nWHERE">>
    [] t = SHRT -> <<SP>> \o verb \o <<"$">> \o verbdata[3] \o <<" \nHOW">>
    [] t = PERS -> IF Len(who) > 0 THEN verbdata[4] ELSE verbdata[3]
    [] OTHER    -> verbdata[3]

\* " \nHOW", " \nWHERE", " \nWHAT" and " \nMSG" filled in
fill(a, how, where, mess, msg) ==
  replace(replace(replace(replace(a, " \nHOW", IF how = <<>> THEN <<>> ELSE <<SP>> \o how),
                          " \nWHERE", where),
                  " \nWHAT", mess),
          " \nMSG", msg)

\* mess and msg as the templates take them: <<mess, msg>>
\* (mess0 the message, msg0 what the default message set msg to, or NULL)
mess_pair(mess0, msg0) ==
  IF mess0 = <<>>
    THEN << <<>>, IF msg0 = NULL THEN <<>> ELSE msg0 >>
    ELSE << <<SP>> \o mess0,
            IF msg0 = NULL THEN <<SP, "'">> \o mess0 \o <<"'">> ELSE msg0 >>

\* if(mess[0]=='\'') mess=msg=" "+extract(mess,1);
default_mess(verbdata, mess) ==
  IF default_mess_used(verbdata, mess)
    THEN IF verbdata[2][2][1] = "'"
           THEN mess_pair(<<SP>> \o Tail(verbdata[2][2]), <<SP>> \o Tail(verbdata[2][2]))
           ELSE mess_pair(verbdata[2][2], NULL)
    ELSE mess_pair(mess, NULL)

\* the array a clause is reduced to: ({who,a,b,b,a,a,a})
reduced(who, a, b) ==
  [ok |-> TRUE, Y |-> << <<who, a, b, b, a, a, a>> >>, fail |-> NoFailure]

need_person(verb) ==
  [ok |-> FALSE, Y |-> <<>>, fail |-> Failure("MissingTarget", verb, 0, <<>>)]

\* the ending is dropped for every reader
reduce_endings_bare(who, a) == reduced(who, replace(a, "$", <<>>), replace(a, "$", <<>>))

\* a=replace(a,"$",""); b=replace(b,"$","s");
reduce_endings(who, a) == reduced(who, replace(a, "$", <<>>), replace(a, "$", <<"s">>))

\* the types that share the code under case SIMP; a is the template with
\* " \nAT" replaced
reduce_simple(verb, who, a, how, where, mm) ==
  IF Len(who) = 0 /\ needs_person(a) THEN need_person(verb)
  ELSE reduce_endings(who, fill(a, how, where, mm[1], mm[2]))

reduce_switch(verb, verbdata, who, how, where, mm) ==
  IF verbdata[1] \in {DEFA, PREV, PHYS, SHRT, PERS, SIMP} THEN
    reduce_simple(verb, who,
                  IF Len(who) > 0 /\ Len(verbdata) > 3
                    THEN replace(simple_template(verb, verbdata, who), " \nAT",
                                 verbdata[4] \o <<" \nWHO">>)
                    ELSE replace(simple_template(verb, verbdata, who), " \nAT", <<>>),
                  how, where, mm)
  ELSE IF verbdata[1] = DEUX THEN
    IF Len(who) = 0 /\ needs_person(verbdata[3]) THEN need_person(verb)
    ELSE reduced(who, fill(verbdata[3], how, where, mm[1], mm[2]),
                      fill(verbdata[4], how, where, mm[1], mm[2]))
  ELSE IF verbdata[1] = QUAD THEN
    IF Len(who) = 0
      THEN reduced(who, fill(verbdata[3], how, where, mm[1], mm[2]),
                        fill(verbdata[4], how, where, mm[1], mm[2]))
      ELSE reduced(who, fill(verbdata[5], how, where, mm[1], mm[2]),
                        fill(verbdata[6], how, where, mm[1], mm[2]))
  ELSE \* FULL
    [ok |-> TRUE,
     Y |-> << <<who>> \o
              [e \in 1..6 |-> fill(verbdata[(IF Len(who) = 0 THEN 2 ELSE 8) + e],
                                   how, where, mm[1], mm[2])] >>,
     fail |-> NoFailure]

\* where=" "+implode_nicely(body)
where_of(body) == IF Len(body) > 0 THEN <<SP>> \o implode_nicely(body, and_word) ELSE <<>>

\* how=implode_nicely(SUB_ARRAY(adverb,({""})))
how_of(adverb) == implode_nicely(SUB_ARRAY(adverb, << <<>> >>), and_word)

reduce_verb(verb, verbdata, who, adverb, mess, body) ==
  reduce_switch(verb, verbdata, who,
                how_of(default_adverb(verbdata, adverb)),
                where_of(default_body(verbdata, body)),
                default_mess(verbdata, mess))

-----------------------------------------------------------------------------
(* prefix(): the one entry of dum that starts with pr, 0 when none does or *)
(* pr holds a character other than a-z and space, -1 (and the list given   *)
(* to notify_fail) when several do.                                        *)

prefix(dum, pr) ==
  LET q == SelectSeq(dum, LAMBDA d : starts_with(d, pr)) IN
  IF \E i \in 1..Len(pr) : pr[i] \notin LowerChars /\ pr[i] # SP
    THEN [p |-> "0", one |-> <<>>, q |-> <<>>]
  ELSE IF Len(q) = 0 THEN [p |-> "0", one |-> <<>>, q |-> <<>>]
  ELSE IF Len(q) = 1 THEN [p |-> "one", one |-> q[1], q |-> q]
  ELSE [p |-> "-1", one |-> <<>>, q |-> q]

\* p=prefix(dum,tmp); while(p==-1 && u+1<sizeof(q)) { u++; tmp+=" "+q[u]; ... }
\* u counts from 0 as in the source: q[u] there is q[u+1] here
RECURSIVE prefix_extend(_, _, _, _)
prefix_extend(dum, q, u, tmp) ==
  LET p == prefix(dum, tmp) IN
  IF p.p = "-1" /\ u + 1 < Len(q)
    THEN prefix_extend(dum, q, u + 1, tmp \o <<SP>> \o q[u + 2])
    ELSE [p |-> p, u |-> u]

\* one word of the sentence is taken for the adverb, whatever follows it
consume_one(tmp2, q, u, e) == e + 1

\* the words of the matched adverb that the sentence spells out:
\* for(u=0; u<sizeof(tmp2) && e<sizeof(q); u++) { ... }  (the value of e after it)
RECURSIVE consume(_, _, _, _)
consume(tmp2, q, u, e) ==
  IF ~(u < Len(tmp2) /\ e < Len(q)) THEN e
  ELSE IF tmp2[u + 1] = q[e + 1] THEN consume(tmp2, q, u + 1, e + 1)
  ELSE IF starts_with(tmp2[u + 1], q[e + 1]) THEN e + 1
  ELSE e

\* a number as a string
RECURSIVE to_string(_)
to_string(n) ==
  LET d == <<"0","1","2","3","4","5","6","7","8","9">>[(n % 10) + 1] IN
  IF n < 10 THEN <<d>> ELSE Append(to_string(n \div 10), d)

\* the ordinal of the word that makes no sense
ordinal(n) ==
  CASE n = 1 -> <<"first">>
    [] n = 2 -> <<"second">>
    [] n = 3 -> <<"third">>
    [] n = 4 -> <<"fourth">>
    [] n = 5 -> <<"fifth">>
    [] n = 6 -> <<"sixth">>
    [] n = 7 -> <<"seventh">>
    [] n = 8 -> <<"eigth">>
    [] n = 9 -> <<"ninth">>
    [] n = 10 -> <<"tenth">>
    [] n = 11 -> <<"eleventh">>
    [] n = 12 -> <<"twelvth">>
    [] OTHER -> CASE n % 10 = 1 -> to_string(n) \o <<"st">>
                  [] n % 10 = 2 -> to_string(n) \o <<"nd">>
                  [] n % 10 = 3 -> to_string(n) \o <<"rd">>
                  [] OTHER      -> to_string(n) \o <<"th">>

-----------------------------------------------------------------------------
(* webster: the scan of one sentence.  st is the state of the function     *)
(* between two rounds of its for loop; e counts from 0 as in the source,   *)
(* so q[e] there is st.q[st.e + 1] here.  T holds what the function reads  *)
(* of the object: the tables, offset and last_action.                      *)

NullWords == {and_word, Word.amp, <<>>, Word.at, Word.to, Word.before, Word.in, Word.on, Word.the, Word.with}

SelfWords == {Word.me, Word.myself, Word.I}

BackWords == {Word.them, Word.him, Word.her, Word.it}

GroupWords == {Word.all, Word.everybody, Word.everyone}

ExceptWords == {Word.except, Word.but}

NoCont == [set |-> FALSE, parsed_part |-> <<>>, uncertain_part |-> <<>>, unparsed_part |-> <<>>]

webster_init(t, T) ==
  [q |-> SUB_ARRAY(my_explode(t, SP), << <<>> >>), e |-> 0,
   Y |-> <<>>, who |-> <<>>, adv |-> <<>>, body |-> <<>>, mess |-> <<>>,
   how |-> NULL, verb |-> NULL, verbdata |-> <<>>, except |-> FALSE,
   persons |-> FALSE, bd |-> <<>>, last_action |-> T.last_action,
   status |-> "run", fail |-> NoFailure, cont |-> NoCont, trace |-> <<>>]

\* one round of the loop leaves this behind for the properties to look at
Round(st, e0, tok, cls) ==
  [e0 |-> e0, tok |-> tok, cls |-> cls, e1 |-> st.e,
   who |-> st.who, adv |-> st.adv, body |-> st.body, mess |-> st.mess,
   except |-> st.except, nY |-> Len(st.Y), status |-> st.status,
   verb |-> st.verb, verbdata |-> st.verbdata, how |-> st.how]

log_round(st, e0, tok, cls) ==
  [st EXCEPT !.trace = Append(st.trace, Round(st, e0, tok, cls))]

\* the end of a round: break (or continue) and the e++ of the for loop
next_round(st, e0, tok, cls) == log_round([st EXCEPT !.e = st.e + 1], e0, tok, cls)

\* return notify_fail(...),0
fail_round(st, e0, tok, cls, f) ==
  log_round([st EXCEPT !.status = "fail", !.fail = f], e0, tok, cls)

\* who+=x whether except is on or not
add_who_always(st, x) == [st EXCEPT !.who = st.who \o x]

\* who=SUB_ARRAY(who,x) when except is on, who+=x otherwise
add_who(st, x) ==
  [st EXCEPT !.who = IF st.except THEN SUB_ARRAY(st.who, x) ELSE st.who \o x]

\* e is not set back to the word that closes the message
RECURSIVE absorb_no_step_back(_, _, _)
absorb_no_step_back(q, mess, e) ==
  IF mess[Len(mess)] # "\"" /\ e < Len(q)
    THEN absorb_no_step_back(q, mess \o <<SP>> \o q[e + 1], e + 1)
    ELSE IF mess[Len(mess)] = "\""
      THEN <<SubSeq(mess, 1, Len(mess) - 1), e>>
      ELSE <<mess, e>>

\* the quoted message that starts at q[e]: <<mess, e>> before the continue
RECURSIVE absorb(_, _, _)
absorb(q, mess, e) ==
  IF mess[Len(mess)] # "\"" /\ e < Len(q)
    THEN absorb(q, mess \o <<SP>> \o q[e + 1], e + 1)
    ELSE IF mess[Len(mess)] = "\""
      THEN <<SubSeq(mess, 1, Len(mess) - 1), e - 1>>
      ELSE <<mess, e>>

\* the persons mapping: mkmapping(map_array(people,"get_name"),people)
person_names == [i \in 1..Len(get_persons) |-> get_name(get_persons[i])]

person_of(n) ==
  get_persons[CHOOSE i \in 1..Len(get_persons) :
                /\ person_names[i] = n
                /\ \A j \in (i+1)..Len(get_persons) : person_names[j] # n]

\* the targets of the clause that is closed stay for the clause that begins
webster_verb_keep_who(st, e0, t0, p, r) ==
  IF st.verb = NULL THEN
    next_round([st EXCEPT !.verb = st.q[st.e + 1], !.verbdata = p], e0, t0, "verb")
  ELSE IF ~r.ok THEN
    fail_round([st EXCEPT !.bd = Append(st.bd, <<st.verb, st.who, st.adv, st.mess, st.body>>),
                          !.except = FALSE],
               e0, t0, "verb", r.fail)
  ELSE
    next_round([st EXCEPT !.bd = Append(st.bd, <<st.verb, st.who, st.adv, st.mess, st.body>>),
                          !.except = FALSE,
                          !.Y = st.Y \o r.Y, !.mess = <<>>, !.adv = <<>>, !.body = <<>>,
                          !.verb = st.q[st.e + 1], !.verbdata = p],
               e0, t0, "verb")

\* a verb is met: the clause of the verb before it, if any, is closed
\* (r is what reduce_verb made of it) and the clause of p begins
webster_verb(st, e0, t0, p, r) ==
  IF st.verb = NULL THEN
    next_round([st EXCEPT !.verb = st.q[st.e + 1], !.verbdata = p], e0, t0, "verb")
  ELSE IF ~r.ok THEN
    fail_round([st EXCEPT !.bd = Append(st.bd, <<st.verb, st.who, st.adv, st.mess, st.body>>),
                          !.except = FALSE],
               e0, t0, "verb", r.fail)
  ELSE
    next_round([st EXCEPT !.bd = Append(st.bd, <<st.verb, st.who, st.adv, st.mess, st.body>>),
                          !.except = FALSE,
                          !.Y = st.Y \o r.Y, !.mess = <<>>, !.adv = <<>>,
                          !.who = <<>>, !.body = <<>>,
                          !.verb = st.q[st.e + 1], !.verbdata = p],
               e0, t0, "verb")

\* parsed_part, uncertain_part and unparsed_part as an ambiguous word at
\* q[e] leaves them; q[u] is the last word looked at
continuation(st, t, u) ==
  [set |-> TRUE,
   parsed_part |-> st.last_action \o
                   (IF st.e > 0 THEN implode(SubSeq(st.q, 1, st.e), <<SP>>) ELSE <<>>),
   uncertain_part |-> t,
   unparsed_part |-> implode(SubSeq(st.q, u + 2, Len(st.q)), <<SP>>)]

\* the adverb is added alone and the pending word stays
add_adverb_word_alone(st, w) == [st EXCEPT !.adv = Append(st.adv, w)]

\* an adverb is added, after the pending word of the how mapping if any
add_adverb_word(st, w) ==
  [st EXCEPT !.adv = Append(st.adv, IF st.how # NULL THEN st.how \o <<SP>> \o w ELSE w),
             !.how = NULL]

\* the word is no known word: a is what prefix() finds among the adverbs
webster_adverb_prefix(st, T, e0, t0, t, a) ==
  IF a.p.p = "-1" THEN
    fail_round([st EXCEPT !.cont = continuation(st, t, a.u), !.last_action = <<>>],
               e0, t0, "adverb_prefix",
               Failure("AmbiguousToken", <<"What adverb was that?">>, 0, a.p.q))
  ELSE IF a.p.p = "one" THEN
    IF a.p.one = Word.plainly THEN
      next_round([st EXCEPT !.e = consume(my_explode(a.p.one, SP), st.q, 0, st.e) - 1,
                            !.adv = << <<>> >>],
                 e0, t0, "adverb_prefix")
    ELSE
      next_round(add_adverb_word(
                   [st EXCEPT !.e = consume(my_explode(a.p.one, SP), st.q, 0, st.e) - 1],
                   a.p.one),
                 e0, t0, "adverb_prefix")
  ELSE
    fail_round(st, e0, t0, "unknown",
               Failure("UnknownToken", ordinal(T.offset + st.e), T.offset + st.e, <<>>))

\* the adverbs are asked first, the extra adverbs when they know nothing
adverb_prefix(q, e, t, T, a1) ==
  IF a1.p.p = "0" THEN prefix_extend(T.xadverbs, q, e, t) ELSE a1

\* the word is no known word: pp is what prefix() finds among the persons
webster_prefix(st, T, e0, t0, t, pp) ==
  IF pp.p = "-1" THEN
    fail_round([st EXCEPT !.cont = continuation(st, t, st.e), !.last_action = <<>>],
               e0, t0, "person_prefix",
               Failure("AmbiguousToken", <<"Who do you mean?">>, 0, pp.q))
  ELSE IF pp.p = "one" THEN
    next_round(add_who([st EXCEPT !.q[st.e + 1] = get_name(person_of(pp.one))],
                       <<person_of(pp.one)>>),
               e0, t0, "person_prefix")
  ELSE
    webster_adverb_prefix(st, T, e0, t0, t,
                          adverb_prefix(st.q, st.e, t, T, prefix_extend(T.adverbs, st.q, st.e, t)))

\* only the verbs table is asked
find_verb_base_only(T, t) == lookup(T.verbs, t)

\* (p=xverbs[t]) || (p=verbs[t])
find_verb(T, t) ==
  IF lookup(T.xverbs, t) # <<>> THEN lookup(T.xverbs, t) ELSE lookup(T.verbs, t)

\* the beginning of the name of one person is asked for before the verbs
webster_default_prefix_first(st, T, e0, t0, t) ==
  IF st.persons /\ t \in Range(person_names) THEN
    next_round(add_who(st, <<person_of(t)>>), e0, t0, "person")
  ELSE IF present(t) # NoObject /\ isplay(present(t)) THEN
    next_round(add_who(st, <<present(t)>>), e0, t0, "person")
  ELSE IF prefix(person_names, t).p = "one" THEN
    webster_prefix([st EXCEPT !.persons = TRUE], T, e0, t0, t, prefix(person_names, t))
  ELSE IF find_verb(T, t) # <<>> THEN
    webster_verb(st, e0, t0, find_verb(T, t),
                 IF st.verb = NULL THEN need_person(t)
                 ELSE reduce_verb(st.verb, st.verbdata, st.who, st.adv, st.mess, st.body))
  ELSE IF t \in Range(T.adverbs) \/ t \in Range(T.xadverbs) THEN
    next_round(add_adverb_word(st, t), e0, t0, "adverb")
  ELSE IF lookup(get_bodydata, t) # <<>> THEN
    next_round([st EXCEPT !.body = Append(st.body, get_bodydata[t])], e0, t0, "body")
  ELSE
    webster_prefix([st EXCEPT !.persons = TRUE], T, e0, t0, t, prefix(person_names, t))

\* the default case of the switch, in the order of the source
webster_default(st, T, e0, t0, t) ==
  IF st.persons /\ t \in Range(person_names) THEN
    next_round(add_who(st, <<person_of(t)>>), e0, t0, "person")
  ELSE IF present(t) # NoObject /\ isplay(present(t)) THEN
    next_round(add_who(st, <<present(t)>>), e0, t0, "person")
  ELSE IF find_verb(T, t) # <<>> THEN
    webster_verb(st, e0, t0, find_verb(T, t),
                 IF st.verb = NULL THEN need_person(t)
                 ELSE reduce_verb(st.verb, st.verbdata, st.who, st.adv, st.mess, st.body))
  ELSE IF t \in Range(T.adverbs) \/ t \in Range(T.xadverbs) THEN
    next_round(add_adverb_word(st, t), e0, t0, "adverb")
  ELSE IF lookup(get_bodydata, t) # <<>> THEN
    next_round([st EXCEPT !.body = Append(st.body, get_bodydata[t])], e0, t0, "body")
  ELSE
    webster_prefix([st EXCEPT !.persons = TRUE], T, e0, t0, t, prefix(person_names, t))

\* the size of the set is tested, OBJECTIVE() is not asked
webster_backref_any_gender(st, e0, t0, t, last_who) ==
  IF t = Word.them /\ Len(last_who) < 2
    THEN fail_round(st, e0, t0, "backref", Failure("MissingBackReference", <<"Who?">>, 0, <<>>))
  ELSE IF t # Word.them /\ Len(last_who) # 1
    THEN fail_round(st, e0, t0, "backref", Failure("MissingBackReference", <<"Who?">>, 0, <<>>))
  ELSE next_round(add_who(st, last_who), e0, t0, "backref")

\* the targets of the clause before are taken whatever their number
webster_backref_any_size(st, e0, t0, t, last_who) ==
  next_round(add_who(st, last_who), e0, t0, "backref")

\* a word of the switch that stands for the targets of the clause before
webster_backref(st, e0, t0, t, last_who) ==
  IF t = Word.them /\ Len(last_who) < 2
    THEN fail_round(st, e0, t0, "backref", Failure("MissingBackReference", <<"Who?">>, 0, <<>>))
  ELSE IF t # Word.them /\ (Len(last_who) # 1 \/ OBJECTIVE(last_who[1]) # t)
    THEN fail_round(st, e0, t0, "backref", Failure("MissingBackReference", <<"Who?">>, 0, <<>>))
  ELSE next_round(add_who(st, last_who), e0, t0, "backref")

\* the round on the word t, which is q[e] without its comma
webster_word(st, T, e0, t0, t) ==
  IF t \in T.how THEN next_round([st EXCEPT !.how = t], e0, t0, "how")
  ELSE IF t \in NullWords THEN next_round(st, e0, t0, "null")
  ELSE IF t \in SelfWords THEN next_round(add_who(st, <<this_player>>), e0, t0, "self")
  ELSE IF t \in BackWords THEN
    IF Len(st.Y) = 0
      THEN fail_round(st, e0, t0, "backref", Failure("MissingBackReference", <<"Who?">>, 0, <<>>))
      ELSE webster_backref(st, e0, t0, t, st.Y[Len(st.Y)][1])
  ELSE IF t \in GroupWords THEN
    IF st.except THEN next_round([st EXCEPT !.who = <<>>], e0, t0, "group")
    ELSE next_round([st EXCEPT !.who = st.who \o SUB_ARRAY(get_persons, <<this_player>>)],
                    e0, t0, "group")
  ELSE IF t \in ExceptWords THEN
    IF ~st.except /\ Len(st.who) = 0
      THEN fail_round(st, e0, t0, "except", Failure("BadExcept", t, 0, <<>>))
      ELSE next_round([st EXCEPT !.except = ~st.except], e0, t0, "except")
  ELSE IF t = Word.plainly THEN next_round([st EXCEPT !.adv = << <<>> >>], e0, t0, "plainly")
  ELSE webster_default(st, T, e0, t0, t)

\* if(t[strlen(t)-1]==',') t=q[e]=t[0..strlen(t)-2];
strip_comma(t) == IF t[Len(t)] = "," THEN SubSeq(t, 1, Len(t) - 1) ELSE t

\* the quoted message that starts at q[e]; m is what absorb() found
webster_message(st, e0, t0, m) ==
  next_round([st EXCEPT !.mess = m[1], !.e = m[2]], e0, t0, "message")

\* one round of for(e=0;e<sizeof(q);e++)
webster_round(st, T) ==
  IF st.q[st.e + 1][1] = "\"" THEN
    webster_message(st, st.e, st.q[st.e + 1], absorb(st.q, Tail(st.q[st.e + 1]), st.e + 1))
  ELSE
    webster_word([st EXCEPT !.q[st.e + 1] = strip_comma(st.q[st.e + 1])], T,
                 st.e, st.q[st.e + 1], strip_comma(st.q[st.e + 1]))

\* the last clause is closed and what reduce_verb said of it is not looked at
webster_close_unchecked(st, r) ==
  [st EXCEPT !.bd = Append(st.bd, <<st.verb, st.who, st.adv, st.mess, st.body>>),
             !.status = "ok", !.Y = st.Y \o r.Y,
             !.last_action = st.last_action \o implode(st.q, <<SP>>)]

\* the last clause is closed; r is what reduce_verb made of it
webster_close(st, r) ==
  IF ~r.ok THEN
    [st EXCEPT !.bd = Append(st.bd, <<st.verb, st.who, st.adv, st.mess, st.body>>),
               !.status = "fail", !.fail = r.fail]
  ELSE
    [st EXCEPT !.bd = Append(st.bd, <<st.verb, st.who, st.adv, st.mess, st.body>>),
               !.status = "ok", !.Y = st.Y \o r.Y,
               !.last_action = st.last_action \o implode(st.q, <<SP>>)]

\* a sentence without a verb is taken for done
webster_end_silent(st) ==
  IF st.verb = NULL THEN [st EXCEPT !.status = "ok"]
  ELSE webster_close(st, reduce_verb(st.verb, st.verbdata, st.who, st.adv, st.mess, st.body))

\* after the loop
webster_end(st) ==
  IF st.verb = NULL THEN
    [st EXCEPT !.status = "fail", !.fail = Failure("NoVerb", <<"No verb?">>, 0, <<>>)]
  ELSE
    webster_close(st, reduce_verb(st.verb, st.verbdata, st.who, st.adv, st.mess, st.body))

RECURSIVE webster_loop(_, _)
webster_loop(st, T) ==
  IF st.status # "run" THEN st
  ELSE IF st.e < Len(st.q) THEN webster_loop(webster_round(st, T), T)
  ELSE webster_end(st)

webster(t, T) == webster_loop(webster_init(t, T), T)

-----------------------------------------------------------------------------
(* gloerp: the placeholders of a clause text filled in for the reader who  *)
(* (NoObject: a bystander); t are the targets, prev says that the clause   *)
(* before had the same targets.                                            *)

\* the reader is never asked: a target is named to everybody
WHO_by_name(o, who) ==
  IF o = this_player THEN OBJECTIVE(o) \o <<"self">> ELSE CAP_NAME(o)

WHO(o, who) ==
  IF who = o
    THEN (IF o = this_player THEN <<"yourself">> ELSE <<"you">>)
    ELSE (IF o = this_player THEN OBJECTIVE(o) \o <<"self">> ELSE CAP_NAME(o))

POSS(o, who) ==
  IF who = o
    THEN (IF o = this_player THEN <<"your own">> ELSE <<"your">>)
    ELSE (IF o = this_player THEN POSSESSIVE(o) \o <<" own">>
          ELSE LET n == CAP_NAME(o) IN
               IF n[Len(n)] = "s" THEN n \o <<"'">> ELSE n \o <<"'", "s">>)

\* what one placeholder stands for
gloerp_slot(m, t, who, prev) ==
  CASE ~prev /\ m = " \nWHO"  -> implode_nicely([i \in 1..Len(t) |-> WHO(t[i], who)], and_word)
    [] ~prev /\ m = " \nPOSS" -> implode_nicely([i \in 1..Len(t) |-> POSS(t[i], who)], and_word)
    [] m = " \nYOUR" -> IF this_player = who THEN <<"your">> ELSE POSSESSIVE(this_player)
    [] m = " \nYOU"  -> IF this_player = who THEN <<"you">> ELSE OBJECTIVE(this_player)
    [] m = " \nMY"   -> IF this_player = who THEN <<"your">> ELSE OBJECTIVE(this_player)
    [] m = " \nPRON" -> IF this_player = who THEN <<"you">> ELSE PRONOUN(this_player)
    [] m = " \nTHEIR" \/ (prev /\ m = " \nPOSS") ->
         IF Len(t) > 1
           THEN (IF member_array(who, t) # -1 THEN <<"your">> ELSE <<"their">>)
           ELSE (IF t[1] = who THEN <<"your">> ELSE POSSESSIVE(t[1]))
    [] m = " \nOBJ" \/ (prev /\ m = " \nWHO") ->
         IF Len(t) > 1
           THEN (IF member_array(who, t) # -1 THEN <<"all of you">> ELSE <<"them">>)
           ELSE IF t[1] = who
             THEN (IF who = this_player THEN <<"yourself">> ELSE <<"you">>)
             ELSE (IF t[1] = this_player THEN OBJECTIVE(this_player) \o <<"self">>
                   ELSE OBJECTIVE(t[1]))
    [] m = " \nSUBJ" ->
         IF Len(t) > 1
           THEN (IF member_array(who, t) # -1 THEN <<"you">> ELSE <<"they">>)
           ELSE (IF t[1] = who THEN <<"you">> ELSE PRONOUN(t[1]))
    [] m = " \nIS" ->
         IF member_array(who, t) # -1 THEN <<"are">>
         ELSE IF Len(t) <= 1 THEN <<"is">> ELSE <<"are">>

Placeholders ==
  {" \nWHO", " \nPOSS", " \nYOUR", " \nYOU", " \nMY", " \nPRON",
   " \nTHEIR", " \nOBJ", " \nSUBJ", " \nIS"}

RECURSIVE gloerp(_, _, _, _)
gloerp(q, t, who, prev) ==
  IF Len(q) = 0 THEN <<>>
  ELSE (IF q[1] \in Placeholders THEN <<SP>> \o gloerp_slot(q[1], t, who, prev)
        ELSE <<q[1]>>)
       \o gloerp(Tail(q), t, who, prev)

-----------------------------------------------------------------------------
(* The messages mapping: what TELL_OBJECT has gathered for each object of  *)
(* the room since messages=([]), one piece for each call.                  *)

Objects == Range(all_inventory)

NoMessages == [o \in Objects |-> <<>>]

TELL_OBJECT(messages, o, s) == [messages EXCEPT ![o] = Append(messages[o], s)]

\* tell_room(environment(this_player()), s, a): to all of the room but a
tell_room(messages, s, a) ==
  [o \in Objects |-> IF o \in Range(a) THEN messages[o] ELSE Append(messages[o], s)]

\* say(s): to all of the room but this_player()
say(messages, s) == tell_room(messages, s, <<this_player>>)

WRITE(messages, s) == TELL_OBJECT(messages, this_player, s)

\* the first target alone is told the target text
told_targets_first_only(q) == IF q = <<>> THEN {} ELSE {q[1]} \ {this_player}

\* the targets of q that are told the target text:
\* this_player()!=q[w] && w==member_array(q[w],q)
told_targets(q) ==
  {q[w] : w \in {i \in 1..Len(q) : q[i] # this_player /\ i - 1 = member_array(q[i], q)}}

\* a comma follows every clause but the last
joiner_commas(n, e) == IF n - e = 1 \/ n - e = 0 THEN <<>> ELSE <<",">>

\* what follows clause e (from 0) of a command of n clauses
joiner(n, e) ==
  IF n - e = 2 THEN <<SP, "and">>
  ELSE IF n - e = 1 \/ n - e = 0 THEN <<>>
  ELSE <<",">>

\* no clause has the targets of the clause before
same_targets_never(q0, q) == FALSE

\* the clause has as many targets as the clause before
same_targets_by_size(q0, q) == Len(q0) = Len(q) /\ member_array(this_player, q0) = -1

\* prev of feel(): the clause has the targets q0 of the clause before,
\* and this_player() is not one of them
same_targets(q0, q) ==
  SUB_ARRAY(q0, q) = <<>> /\ SUB_ARRAY(q, q0) = <<>> /\ member_array(this_player, q0) = -1

\* tell_room(environment(this_player()),",",({})) and " and"
tell_joiner(messages, j) == IF j = <<>> THEN messages ELSE tell_room(messages, j, <<>>)

\* one round of the loop of feel(): clause d[e], q0 the targets of the one before
feel_clause(messages, d, e, q0, flag) ==
  tell_joiner(
    [o \in Objects |->
       IF o = this_player
         THEN Append(messages[o],
                     gloerp(d[e + 1][2 + flag * 3], d[e + 1][1], this_player,
                            same_targets(q0, d[e + 1][1])))
       ELSE IF o \in told_targets(d[e + 1][1])
         THEN Append(messages[o],
                     gloerp(d[e + 1][3 + flag * 3], d[e + 1][1], o,
                            same_targets(q0, d[e + 1][1])))
       ELSE IF o \in Range(d[e + 1][1])
         THEN messages[o]
       ELSE Append(messages[o],
                   gloerp(d[e + 1][4 + flag * 3], d[e + 1][1], NoObject,
                          same_targets(q0, d[e + 1][1])))],
    joiner(Len(d), e))

RECURSIVE feel_from(_, _, _, _, _)
feel_from(messages, d, e, q0, flag) ==
  IF e >= Len(d) THEN messages
  ELSE feel_from(feel_clause(messages, d, e, q0, flag), d, e + 1, d[e + 1][1], flag)

feel(messages, d, flag) == feel_from(messages, d, 0, <<>>, flag)

\* feel_to_this_player(): res as the pieces it is put together from
RECURSIVE feel_to_this_player_from(_, _, _, _, _)
feel_to_this_player_from(res0, d, e, q0, flag) ==
  IF e >= Len(d) THEN res0
  ELSE feel_to_this_player_from(
         Append(res0, gloerp(d[e + 1][2 + flag * 3], d[e + 1][1], this_player,
                             same_targets(q0, d[e + 1][1])))
           \o (IF joiner(Len(d), e) = <<>> THEN <<>> ELSE <<joiner(Len(d), e)>>),
         d, e + 1, d[e + 1][1], flag)

feel_to_this_player(d, flag) == feel_to_this_player_from(<<>>, d, 0, <<>>, flag)

-----------------------------------------------------------------------------
(* do_feel: the handler of a typed command.  v is query_verb(), the first  *)
(* word of the command, p the rest of it (NULL when there is none).        *)

\* what a handler leaves for the player and the properties: its return
\* value, what notify_fail() holds, the sentence given to webster and the
\* end of its scan, and what flush() handed to each object of the room
NoRes ==
  [ret |-> 0, merged |-> FALSE, sent |-> <<>>, status |-> "none", fail |-> NoFailure,
   Y |-> <<>>, bd |-> <<>>, trace |-> <<>>, q |-> <<>>, told |-> NoMessages]

\* the tables of the object as webster reads them
Tables(offset, last_action) ==
  [verbs |-> verbs, xverbs |-> xverbs, adverbs |-> adverbs, xadverbs |-> xadverbs,
   how |-> get_how, offset |-> offset, last_action |-> last_action]

\* set_last_action(s): last_action=s+" "
set_last_action(s) == s \o <<SP>>

\* the last character of what this_player() was told
last_char(v) == v[Len(v)][Len(v[Len(v)])]

\* the full stop, unless what this_player() was told ends a sentence itself
full_stop(messages) ==
  IF last_char(messages[this_player]) \notin {".", "?", "!"}
    THEN tell_room(messages, <<".", "\n">>, <<>>)
    ELSE tell_room(messages, <<"\n">>, <<>>)

\* WRITE("You"); say(CAP_NAME(this_player())); feel(q,0); the full stop
deliver(Y) ==
  full_stop(feel(say(WRITE(NoMessages, <<"You">>), CAP_NAME(this_player)), Y, 0))

\* the clauses closed before a failure are told
parse_result_partial(sent, w) ==
  [res |-> [ret |-> IF w.status = "ok" THEN 1 ELSE 0, merged |-> FALSE, sent |-> sent,
            status |-> w.status, fail |-> w.fail, Y |-> w.Y, bd |-> w.bd,
            trace |-> w.trace, q |-> w.q,
            told |-> IF w.Y # <<>> THEN deliver(w.Y) ELSE NoMessages],
   cont |-> w.cont]

\* what do_feel leaves when webster has ended in w
parse_result(sent, w) ==
  [res |-> [ret |-> IF w.status = "ok" THEN 1 ELSE 0, merged |-> FALSE, sent |-> sent,
            status |-> w.status, fail |-> w.fail, Y |-> w.Y, bd |-> w.bd,
            trace |-> w.trace, q |-> w.q,
            told |-> IF w.status = "ok" THEN deliver(w.Y) ELSE NoMessages],
   cont |-> w.cont]

\* do_feel below the test of uncertain_part
do_feel_parse(v, p) ==
  IF lookup(verbs, v) = <<>> /\ lookup(xverbs, v) = <<>> THEN [res |-> NoRes, cont |-> NoCont]
  ELSE IF v = Word.say THEN [res |-> NoRes, cont |-> NoCont]
  ELSE parse_result(IF p # NULL THEN v \o <<SP>> \o p ELSE v,
                    webster(IF p # NULL THEN v \o <<SP>> \o p ELSE v,
                            Tables(1, set_last_action(<<>>))))

\* while(sscanf(parsed_part," %s",parsed_part));
RECURSIVE strip_spaces(_)
strip_spaces(s) == IF Len(s) > 0 /\ s[1] = SP THEN strip_spaces(Tail(s)) ELSE s

\* the driver splits a command at its first space: the verb and the rest
first_word(c) == my_explode(c, SP)[1]

rest_words(c) ==
  IF Len(first_word(c)) < Len(c) THEN SubSeq(c, Len(first_word(c)) + 2, Len(c)) ELSE NULL

\* uncertain_part is left as it was when the parse asks no question
after_parse_pending(r, pp, ret, merged) ==
  [res |-> [r.res EXCEPT !.ret = ret, !.merged = merged],
   parsed_part |-> IF r.cont.set THEN r.cont.parsed_part ELSE pp,
   uncertain_part |-> IF r.cont.set THEN r.cont.uncertain_part ELSE uncertain_part,
   unparsed_part |-> IF r.cont.set THEN r.cont.unparsed_part ELSE unparsed_part]

\* the fields of the object after a parse that left r; pp is parsed_part
\* as it was when the parse began
after_parse(r, pp, ret, merged) ==
  [res |-> [r.res EXCEPT !.ret = ret, !.merged = merged],
   parsed_part |-> IF r.cont.set THEN r.cont.parsed_part ELSE pp,
   uncertain_part |-> IF r.cont.set THEN r.cont.uncertain_part ELSE NULL,
   unparsed_part |-> IF r.cont.set THEN r.cont.unparsed_part ELSE unparsed_part]

\* the command put together is parsed while the question is still pending
force_self_pending(c) ==
  after_parse_pending(do_feel_parse(first_word(c), rest_words(c)), c, 1, TRUE)

\* FORCE_SELF(parsed_part); return 1;
force_self(c) == after_parse(do_feel_parse(first_word(c), rest_words(c)), c, 1, TRUE)

same_ret(r) == after_parse(r, parsed_part, r.res.ret, FALSE)

\* the whole handler: [res, parsed_part, uncertain_part, unparsed_part]
do_feel_result(v, p) ==
  IF uncertain_part # NULL /\ starts_with(v, uncertain_part) /\ Len(uncertain_part) < Len(v) THEN
    force_self(strip_spaces(parsed_part \o <<SP>> \o (IF p # NULL THEN v \o <<SP>> \o p ELSE v)
                            \o <<SP>> \o unparsed_part))
  ELSE
    same_ret(do_feel_parse(v, p))

NoCmd == [op |-> "none", words |-> <<>>, m |-> <<>>, v |-> <<>>, before |-> <<>>]

\* the fields of the object set from what the handler op left; a command
\* put together from a stored part and a reply is not longer than
\* MaxSentence words
handled_by(op, words, r) ==
  /\ pc = "prompt"
  /\ r.res.merged => Len(r.res.q) <= MaxSentence
  /\ pc' = "handled"
  /\ cmd' = [NoCmd EXCEPT !.op = op, !.words = words]
  /\ res' = r.res
  /\ parsed_part' = r.parsed_part
  /\ uncertain_part' = r.uncertain_part
  /\ unparsed_part' = r.unparsed_part
  /\ UNCHANGED <<verbs, xverbs, adverbs, xadverbs>>

handled(words, r) == handled_by("do_feel", words, r)

\* the player types the words of a command
do_feel(words) ==
  handled(words, do_feel_result(words[1],
                                IF Len(words) > 1 THEN implode(Tail(words), <<SP>>) ELSE NULL))

\* suddenly: WRITE("Suddenly, you"); say("Suddenly, "+CAP_NAME(this_player()));
\* feel(q,0); the full stop
deliver_suddenly(Y) ==
  full_stop(feel(say(WRITE(NoMessages, <<"Suddenly, you">>),
                     <<"Suddenly, ">> \o CAP_NAME(this_player)), Y, 0))

\* what suddenly leaves when webster has ended in w
suddenly_result(sent, w) ==
  [res |-> [ret |-> IF w.status = "ok" THEN 1 ELSE 0, merged |-> FALSE, sent |-> sent,
            status |-> w.status, fail |-> w.fail, Y |-> w.Y, bd |-> w.bd,
            trace |-> w.trace, q |-> w.q,
            told |-> IF w.status = "ok" THEN deliver_suddenly(w.Y) ELSE NoMessages],
   cont |-> w.cont]

\* the words are counted as do_feel counts them
suddenly_parse_offset_1(p) ==
  IF p = NULL
    THEN [res |-> [NoRes EXCEPT !.ret = 1,
                                !.told = WRITE(NoMessages, <<"Suddenly what?\n">>)],
          cont |-> NoCont]
    ELSE suddenly_result(p, webster(p, Tables(1, set_last_action(Word.suddenly))))

\* suddenly(p): p is what follows the word suddenly, NULL when nothing does
suddenly_parse(p) ==
  IF p = NULL
    THEN [res |-> [NoRes EXCEPT !.ret = 1,
                                !.told = WRITE(NoMessages, <<"Suddenly what?\n">>)],
          cont |-> NoCont]
    ELSE suddenly_result(p, webster(p, Tables(2, set_last_action(Word.suddenly))))

\* the fields of the object after suddenly: it touches them only through
\* webster
after_suddenly(r) ==
  [res |-> r.res,
   parsed_part |-> IF r.cont.set THEN r.cont.parsed_part ELSE parsed_part,
   uncertain_part |-> IF r.cont.set THEN r.cont.uncertain_part ELSE uncertain_part,
   unparsed_part |-> IF r.cont.set THEN r.cont.unparsed_part ELSE unparsed_part]

\* the player types "suddenly" and the words.  No reply is awaited then
\* (uncertain_part is 0), so do_feel, which the driver asks for every
\* command, returns 0 for the verb suddenly and leaves the object as it is
suddenly(words) ==
  /\ uncertain_part = NULL
  /\ handled_by("suddenly", words,
                after_suddenly(suddenly_parse(IF Len(words) > 0 THEN implode(words, <<SP>>)
                                              ELSE NULL)))

\* the driver hands out what was gathered and reads the next command
next_command ==
  /\ pc = "handled"
  /\ pc' = "prompt"
  /\ cmd' = NoCmd
  /\ res' = NoRes
  /\ UNCHANGED <<verbs, xverbs, adverbs, xadverbs, parsed_part, uncertain_part, unparsed_part>>

-----------------------------------------------------------------------------
(* The registry: remove_verb and add_verb.                                 *)

\* m_delete(m, k)
m_delete(m, k) == [x \in DOMAIN m \ {k} |-> m[x]]

\* for(e=0;e<sizeof(v);e++) xverbs=m_delete(xverbs,v[e]);
RECURSIVE remove_all(_, _)
remove_all(m, v) ==
  IF Len(v) = 0 THEN m ELSE remove_all(m_delete(m, v[1]), Tail(v))

\* m1 + m2 on mappings: the entries of both, those of m2 for the indices of both
m_add(m1, m2) ==
  [x \in DOMAIN m1 \cup DOMAIN m2 |-> IF x \in DOMAIN m2 THEN m2[x] ELSE m1[x]]

\* an array of the elements of a set (m_indices)
RECURSIVE set_to_seq(_)
set_to_seq(S) ==
  IF S = {} THEN <<>> ELSE LET x == CHOOSE x \in S : TRUE IN <<x>> \o set_to_seq(S \ {x})

remove_verb_result(xv, v) == remove_all(xv, v)

\* the entries that are there already are kept
add_verb_keep_old(xv, m) == m_add(m, xv)

\* remove_verb(m_indices(xverbs) & m_indices(v)); xverbs+=v;
add_verb_result(xv, m) ==
  m_add(remove_verb_result(xv, set_to_seq(DOMAIN xv \cap DOMAIN m)), m)

remove_verb(v) ==
  /\ pc = "prompt"
  /\ xverbs' = remove_verb_result(xverbs, v)
  /\ cmd' = [NoCmd EXCEPT !.op = "remove_verb", !.v = v, !.before = <<verbs, xverbs>>]
  /\ UNCHANGED <<verbs, adverbs, xadverbs, parsed_part, uncertain_part, unparsed_part, pc, res>>

add_verb(m) ==
  /\ pc = "prompt"
  /\ xverbs' = add_verb_result(xverbs, m)
  /\ cmd' = [NoCmd EXCEPT !.op = "add_verb", !.m = m, !.before = <<verbs, xverbs>>]
  /\ UNCHANGED <<verbs, adverbs, xadverbs, parsed_part, uncertain_part, unparsed_part, pc, res>>

\* add_adverb(v): v=SUB_ARRAY(v,m_indices(xadverbs)); xadverbs+=mkmapping(v,v);
add_adverb(v) ==
  /\ pc = "prompt"
  /\ xadverbs' = xadverbs \o SUB_ARRAY(v, xadverbs)
  /\ cmd' = [NoCmd EXCEPT !.op = "add_adverb", !.v = v]
  /\ UNCHANGED <<verbs, xverbs, adverbs, parsed_part, uncertain_part, unparsed_part, pc, res>>

-----------------------------------------------------------------------------
(* The object after reset(), and the commands and calls it is given.       *)

Init ==
  /\ verbs = get_verbs
  /\ xverbs = <<>>
  /\ adverbs \in AdverbOrders
  /\ xadverbs = <<>>
  /\ parsed_part = NULL
  /\ uncertain_part = NULL
  /\ unparsed_part = NULL
  /\ pc = "prompt"
  /\ cmd = NoCmd
  /\ res = NoRes

\* the sentences of at most n words over the words W
RECURSIVE Sentences(_, _)
Sentences(W, n) ==
  IF n = 0 THEN {}
  ELSE LET S == Sentences(W, n - 1) IN
       {<<w>> : w \in W} \cup S \cup {Append(s, w) : s \in {x \in S : Len(x) = n - 1}, w \in W}

\* the commands of a verb of V followed by at most n words of W
Commands(V, W, n) ==
  {<<v>> : v \in V} \cup {<<v>> \o tail : v \in V, tail \in Sentences(W, n)}

\* verbs other objects patch into the soul
zap_short == <<SHRT, <<>>, <<>> >>

zap_prev == <<PREV, <<>>, <<>> >>

ExtNames == {Word.zap, Word.smile}

ExtMaps ==
  UNION {[D -> {zap_short, zap_prev}] : D \in (SUBSET ExtNames) \ {{}}}

RemoveArgs == {<<Word.zap>>, <<Word.smile>>, <<Word.bow>>, <<Word.zap, Word.smile>>}

RegistryWords == {Word.smile, Word.zap, Word.say, Word.bob}

RegistryCommands == Sentences(RegistryWords, MaxWords)

Next ==
  \/ \E m \in ExtMaps : add_verb(m)
  \/ \E v \in RemoveArgs : remove_verb(v)
  \/ pc = "prompt" /\ \E words \in RegistryCommands : do_feel(words)
  \/ next_command

Spec == Init /\ [][Next]_vars

\* the words of commands on targets
TargetVerbs == {Word.wave, Word.ogle}

TargetWords == {Word.smile, Word.bob, Word.bo, Word.carol, Word.me, Word.all, Word.except, Word.him, Word.them, Word.at}

TargetCommands == Commands(TargetVerbs, TargetWords, MaxTargetWords)

NextTargets ==
  \/ pc = "prompt" /\ \E words \in TargetCommands : do_feel(words)
  \/ next_command

SpecTargets == Init /\ [][NextTargets]_vars

\* the words of commands on adverbs, and of the replies to "What adverb
\* was that?"
AdverbWords == {Word.ang, Word.s, Word.pl, Word.very, Word.bob}

AdverbCommands ==
  Commands({Word.smile}, AdverbWords, MaxAdverbWords) \cup
  Commands({Word.sl, Word.sadly}, AdverbWords, MaxReply)

NextAdverbs ==
  \/ pc = "prompt" /\ \E words \in AdverbCommands : do_feel(words)
  \/ next_command

SpecAdverbs == Init /\ [][NextAdverbs]_vars

\* the words of commands of several clauses
FeelWords == {Word.smile, Word.wave, Word.bow, Word.bob, Word.carol, Word.me}

FeelCommands == Commands({Word.smile, Word.bow}, FeelWords, MaxFeelWords)

NextFeel ==
  \/ pc = "prompt" /\ \E words \in FeelCommands : do_feel(words)
  \/ next_command

SpecFeel == Init /\ [][NextFeel]_vars

\* the words of commands on a verb of each type
ShapeVerbs == {Word.smile, Word.ogle, Word.hide, Word.pat, Word.sob, Word.blink, Word.kiss}

ShapeWords == {Word.bob, Word.me, Word.except, Word.ogle}

ShapeCommands == Commands(ShapeVerbs, ShapeWords, MaxShapeWords)

NextShapes ==
  \/ pc = "prompt" /\ \E words \in ShapeCommands : do_feel(words)
  \/ next_command

SpecShapes == Init /\ [][NextShapes]_vars

\* the words of commands that may hold a word that makes no sense, or
\* no verb
MetaWords == {Word.smile, Word.bob, Word.the, Word.xyzzy, Word.qhi, Word.yoq, Word.hiq}

MetaCommands == Commands({Word.smile}, MetaWords, MaxMetaWords)

SuddenlyCommands == {<<>>} \cup Sentences(MetaWords, MaxMetaWords)

NextMeta ==
  \/ pc = "prompt" /\ \E words \in MetaCommands : do_feel(words)
  \/ pc = "prompt" /\ \E words \in SuddenlyCommands : suddenly(words)
  \/ next_command

SpecMeta == Init /\ [][NextMeta]_vars

\* long commands that end in a word that makes no sense
OrdinalCommands ==
  {<<Word.smile>> \o [i \in 1..k |-> Word.amp] \o <<w>> :
     k \in 0..MaxFiller, w \in {Word.xyzzy, Word.yoq, Word.box}}

NextOrdinals ==
  \/ pc = "prompt" /\ \E words \in OrdinalCommands : do_feel(words)
  \/ pc = "prompt" /\ \E words \in OrdinalCommands : suddenly(Tail(words))
  \/ next_command

SpecOrdinals == Init /\ [][NextOrdinals]_vars

\* commands that ask "What adverb was that?", replies to it and commands
\* that are no reply
ReplyCommands ==
  Commands({Word.smile, Word.bow}, {Word.s, Word.sl, Word.bob}, MaxReplyWords) \cup
  Commands({Word.sl, Word.sadly, Word.xyzzy}, {Word.s, Word.bob}, MaxReply)

NextReplies ==
  \/ pc = "prompt" /\ \E words \in ReplyCommands : do_feel(words)
  \/ next_command

SpecReplies == Init /\ [][NextReplies]_vars

\* commands of several clauses with words that make a clause fail
FailureCommands ==
  Commands({Word.bow},
           {Word.ogle, Word.bob, Word.him, Word.s, Word.xyzzy, Word.except},
           MaxFailureWords)

NextFailures ==
  \/ pc = "prompt" /\ \E words \in FailureCommands : do_feel(words)
  \/ next_command

SpecFailures == Init /\ [][NextFailures]_vars

\* commands whose clauses gather targets, adverbs, a message and body
\* parts, typed as they are and after the word suddenly
ClauseCommands ==
  Commands({Word.smile, Word.pat},
           {Word.say, Word.pat, Word.bob, Word.sadly, Word.very, Word.plainly, Word.hand,
            Word.hiq, Word.except},
           MaxClauseWords)

NextClauses ==
  \/ pc = "prompt" /\ \E words \in ClauseCommands : do_feel(words)
  \/ pc = "prompt" /\ \E words \in ClauseCommands : suddenly(Tail(words))
  \/ next_command

SpecClauses == Init /\ [][NextClauses]_vars

\* other objects add the verb bo and the adverb car, both the beginning
\* of the name of one person of the room; the player types them, names
\* and beginnings of names
NextPriority ==
  \/ add_verb(Word.bo :> zap_short)
  \/ add_adverb(<<Word.car>>)
  \/ pc = "prompt" /\ \E words \in Commands({Word.smile},
                                             {Word.bo, Word.bob, Word.car, Word.carol, Word.c},
                                             MaxPriorityWords) : do_feel(words)
  \/ next_command

SpecPriority == Init /\ [][NextPriority]_vars

\* other objects add adverbs of several words; the player types their
\* words, whole or in part, and a name after them
PhraseCommands ==
  LET short == Commands({Word.smile}, {Word.like, Word.a, Word.du, Word.bob}, MaxPhraseWords)
  IN short \cup {Append(c, Word.bob) : c \in {x \in short : x[Len(x)] = Word.du}}

NextPhrases ==
  \/ \E v \in {<<Word.like_a_duck>>, <<Word.like_a_duck, Word.like_a_dog>>} : add_adverb(v)
  \/ pc = "prompt" /\ \E words \in PhraseCommands : do_feel(words)
  \/ next_command

SpecPhrases == Init /\ [][NextPhrases]_vars

\* commands of clauses on the same and on other targets, one person, all
\* of them or the actor
NextPronouns ==
  \/ pc = "prompt" /\ \E words \in Commands({Word.smile, Word.ruffle},
                                             {Word.smile, Word.ruffle, Word.bob, Word.all, Word.me},
                                             MaxPronounWords) : do_feel(words)
  \/ next_command

SpecPronouns == Init /\ [][NextPronouns]_vars

\* commands with quoted messages, the words of an adverb of several words
\* and the beginning of several adverbs, and the replies to the question
\* that the beginning is met with
NextProgress ==
  \/ add_adverb(<<Word.like_a_duck>>)
  \/ pc = "prompt" /\ \E words \in Commands({Word.smile},
                                             {Word.qhi, Word.yoq, Word.like, Word.a},
                                             MaxProgressWords)
                                      \cup {<<Word.smile, Word.s>>,
                                            <<Word.smile, Word.like, Word.s>>,
                                            <<Word.smile, Word.qhi, Word.yoq, Word.s>>,
                                            <<Word.sadly>>} : do_feel(words)
  \/ next_command

SpecProgress == Init /\ [][NextProgress]_vars

-----------------------------------------------------------------------------
(* The registry and the parse (Spec).                                      *)

Rounds == {res.trace[i] : i \in 1..Len(res.trace)}

\* the command was parsed: the handler went as far as webster
parsed == pc = "handled" /\ cmd.op = "do_feel" /\ res.status # "none"

\* C1, the calls: the names add_verb was given are in xverbs when it
\* returns, the names remove_verb was given are not
C1_calls ==
  /\ cmd.op = "add_verb" => DOMAIN cmd.m \subseteq DOMAIN xverbs
  /\ cmd.op = "remove_verb" => Range(cmd.v) \cap DOMAIN xverbs = {}

\* C1, the parse: a word that is no standard verb is taken as a verb
\* exactly when xverbs holds it, a standard verb always; a name add_verb is
\* given that is in neither table at the time is an unknown word, and the
\* handler takes a command exactly when its first word is in one of the
\* tables ("say" it leaves to the say command)
C1_parse ==
  /\ \A r \in Rounds :
       /\ r.tok \notin DOMAIN verbs => (r.cls = "verb" <=> r.tok \in DOMAIN xverbs)
       /\ r.tok \in DOMAIN verbs => r.cls = "verb"
       /\ r.tok \in ExtNames \ (DOMAIN verbs \cup DOMAIN xverbs) =>
            r.status = "fail" /\ res.ret = 0 /\ res.fail.kind = "UnknownToken"
  /\ (pc = "handled" /\ cmd.op = "do_feel" /\ ~res.merged) =>
       (res.status = "none" <=>
          (cmd.words[1] \notin (DOMAIN verbs \cup DOMAIN xverbs) \/ cmd.words[1] = Word.say))

\* C1: after any calls of add_verb and remove_verb a name that is no
\* standard verb is parsed as a verb exactly when it is in xverbs at that
\* time, and every standard verb is parsed as a verb
C1_ExtensionResolvesIffRegistered == C1_calls /\ C1_parse

\* C1, its case: a sentence in which zap, a name add_verb was given, and
\* the standard verb smile are both parsed as verbs
C1_Witness ==
  /\ parsed
  /\ \E r \in Rounds : r.tok = Word.zap /\ r.cls = "verb" /\ r.e0 > 0
  /\ \E r \in Rounds : r.tok = Word.smile /\ r.cls = "verb"

\* C2: a parse of the name of a standard verb takes the definition the
\* verbs table holds, whatever xverbs holds
C2_BaseNotShadowed ==
  \A r \in Rounds :
    (r.cls = "verb" /\ r.status = "run" /\ r.tok \in DOMAIN verbs) => r.verbdata = verbs[r.tok]

\* C3: add_verb of a name xverbs holds leaves the new definition under
\* that name and every other entry as it was; remove_verb of names xverbs
\* does not hold leaves xverbs and verbs as they were
C3_ReplaceAndNoOp ==
  /\ cmd.op = "add_verb" =>
       /\ DOMAIN xverbs = DOMAIN cmd.before[2] \cup DOMAIN cmd.m
       /\ \A n \in DOMAIN cmd.m : xverbs[n] = cmd.m[n]
       /\ \A n \in DOMAIN cmd.before[2] \ DOMAIN cmd.m : xverbs[n] = cmd.before[2][n]
       /\ verbs = cmd.before[1]
  /\ (cmd.op = "remove_verb" /\ Range(cmd.v) \cap DOMAIN cmd.before[2] = {}) =>
       /\ xverbs = cmd.before[2]
       /\ verbs = cmd.before[1]

\* C3, its case: add_verb gave a name xverbs held another definition, next
\* to an entry it was not given
C3_Witness ==
  /\ cmd.op = "add_verb"
  /\ \E n \in DOMAIN cmd.m \cap DOMAIN cmd.before[2] : cmd.before[2][n] # cmd.m[n]
  /\ DOMAIN cmd.before[2] \ DOMAIN cmd.m # {}

-----------------------------------------------------------------------------
(* The targets of a clause (SpecTargets).                                  *)

\* who as round i of the parse found it
who_before(i) == IF i = 1 THEN <<>> ELSE res.trace[i - 1].who

\* what round i of the parse put at the end of who
who_added(i) ==
  SubSeq(res.trace[i].who, Len(who_before(i)) + 1, Len(res.trace[i].who))

\* the living, visible objects of the room other than the actor
Eligible == {o \in Range(all_inventory) : ISLIVING(o) /\ ISVISIBLE(o)} \ {this_player}

\* the targets of the clauses the parse closed
Targets == [k \in 1..Len(res.Y) |-> res.Y[k][1]]

\* C4: a group word met outside exclusion mode adds every living, visible
\* object of the room but the actor, once each, to the targets of the
\* clause; a person named right after except or but is taken out of them;
\* "wave at all" has the targets Bob and Carol, "wave at all except bob"
\* Carol alone
C4_GroupWordTargets ==
  /\ \A i \in 1..Len(res.trace) :
       (res.trace[i].cls = "group" /\ ~res.trace[i].except) =>
          /\ SubSeq(res.trace[i].who, 1, Len(who_before(i))) = who_before(i)
          /\ Range(who_added(i)) = Eligible
          /\ Len(who_added(i)) = Cardinality(Eligible)
  /\ \A i \in 2..Len(res.trace) :
       (res.trace[i].cls \in {"person", "person_prefix"} /\ res.trace[i - 1].cls = "except"
          /\ res.trace[i].except) =>
          \E o \in Eligible \cup {this_player} :
             /\ starts_with(NAME(o), res.trace[i].tok)
             /\ o \notin Range(res.trace[i].who)
             /\ res.trace[i].who = SUB_ARRAY(who_before(i), <<o>>)
  /\ (pc = "handled" /\ cmd.words = <<Word.wave, Word.at, Word.all>>) =>
       res.ret = 1 /\ Len(Targets) = 1 /\ Range(Targets[1]) = {"bob", "carol"}
  /\ (pc = "handled" /\ cmd.words = <<Word.wave, Word.at, Word.all, Word.except, Word.bob>>) =>
       res.ret = 1 /\ Targets = << <<"carol">> >>

\* C4, its case: "wave at all except bob" was said and Carol alone is waved at
C4_Witness ==
  /\ pc = "handled"
  /\ cmd.words = <<Word.wave, Word.at, Word.all, Word.except, Word.bob>>
  /\ res.ret = 1
  /\ Targets = << <<"carol">> >>
  /\ res.trace[3].cls = "group" /\ Range(res.trace[3].who) = {"bob", "carol"}

\* C5: no clause a parse closed holds a person twice among its targets
C5_NoDuplicateTargets ==
  \A k \in 1..Len(res.bd) :
    \A i, j \in 1..Len(res.bd[k][2]) : i # j => res.bd[k][2][i] # res.bd[k][2][j]

\* the targets of the clause closed last before round i
last_who(i) == IF res.trace[i].nY = 0 THEN <<>> ELSE Targets[res.trace[i].nY]

\* the number of the targets of the clause closed last suits the word
plurality_agrees(i) ==
  /\ res.trace[i].nY > 0
  /\ IF res.trace[i].tok = Word.them THEN Len(last_who(i)) >= 2 ELSE Len(last_who(i)) = 1

\* him, her and it are the OBJECTIVE() of the one target
gender_agrees(i) ==
  res.trace[i].tok = Word.them \/ OBJECTIVE(last_who(i)[1]) = res.trace[i].tok

BackRounds == {i \in 1..Len(res.trace) : res.trace[i].cls = "backref"}

\* C6 as the specification states it: a back-reference whose plurality
\* agrees with the targets of the clause closed last adds exactly these
\* targets to the targets of the clause
C6_BackReferenceAdds ==
  \A i \in BackRounds :
    plurality_agrees(i) =>
      res.trace[i].status = "run" /\ res.trace[i].who = who_before(i) \o last_who(i)

\* C6: a back-reference is taken exactly when its plurality agrees with
\* the targets of the clause closed last and, for him, her and it, the
\* word is the OBJECTIVE() of the one target; outside exclusion mode it
\* adds exactly these targets to the targets of the clause, in exclusion
\* mode it takes them out
C6_BackReferenceAddsAmended ==
  \A i \in BackRounds :
    /\ res.trace[i].status = "run" <=> (plurality_agrees(i) /\ gender_agrees(i))
    /\ res.trace[i].status = "run" =>
         res.trace[i].who = IF res.trace[i].except
                              THEN SUB_ARRAY(who_before(i), last_who(i))
                              ELSE who_before(i) \o last_who(i)

\* C6, its case: "them" after a clause of two targets, and the parse went on
C6_Witness ==
  \E i \in BackRounds :
    /\ res.trace[i].tok = Word.them
    /\ res.trace[i].status = "run"
    /\ ~res.trace[i].except
    /\ Len(last_who(i)) = 2
    /\ who_added(i) = last_who(i)
    /\ res.ret = 1

\* C7: a back-reference met when the parse has closed no clause, or when
\* the clause closed last has not the number of targets the word asks for
\* (an earlier clause may have), ends the parse with the failure "Who?"
C7_BackReferenceFails ==
  \A i \in BackRounds :
    ~plurality_agrees(i) =>
      /\ res.trace[i].status = "fail"
      /\ i = Len(res.trace)
      /\ res.status = "fail" /\ res.ret = 0
      /\ res.fail = Failure("MissingBackReference", <<"Who?">>, 0, <<>>)
      /\ res.told = NoMessages

\* C7, its case: "him" after a clause without targets that follows a
\* clause with the one target Bob
C7_Witness ==
  \E i \in BackRounds :
    /\ res.trace[i].tok = Word.him
    /\ res.trace[i].nY = 2
    /\ Targets[1] = <<"bob">> /\ Targets[2] = <<>>
    /\ res.fail.kind = "MissingBackReference"

-----------------------------------------------------------------------------
(* Prefixes of adverbs (SpecAdverbs).                                      *)

\* adv and _how as round i of the parse found them
adv_before(i) == IF i = 1 THEN <<>> ELSE res.trace[i - 1].adv

how_before(i) == IF i = 1 THEN NULL ELSE res.trace[i - 1].how

\* no class of words that webster asks before the prefixes of adverbs
\* takes the word t
Unhandled(t) ==
  /\ t \notin get_how \cup NullWords \cup SelfWords \cup BackWords \cup GroupWords
              \cup ExceptWords \cup {Word.plainly}
  /\ t \notin DOMAIN verbs \cup DOMAIN xverbs \cup DOMAIN get_bodydata
  /\ t \notin Range(adverbs) \cup Range(xadverbs)
  /\ t[1] # "\""
  /\ \A o \in Range(all_inventory) : ISLIVING(o) /\ ISVISIBLE(o) => ~starts_with(NAME(o), t)

\* the adverbs that start with t, in lexical order (soul_adverbs is sorted)
Matches(t) ==
  SelectSeq(soul_adverbs, LAMBDA a : a \in Range(adverbs) \cup Range(xadverbs) /\ starts_with(a, t))

PrefixRounds == {i \in 1..Len(res.trace) : Unhandled(res.trace[i].tok)}

\* a word of the parse was ambiguous
ambiguous == res.fail.kind = "AmbiguousToken"

\* C8 as the specification states it: a word that is the prefix of one
\* adverb alone is taken for this adverb, the adverb is added to the
\* adverbs of the clause, and the parse leaves no continuation
C8_UniqueAdverbPrefix ==
  /\ \A i \in PrefixRounds :
       Len(Matches(res.trace[i].tok)) = 1 =>
         /\ res.trace[i].status = "run"
         /\ res.trace[i].adv = Append(adv_before(i), Matches(res.trace[i].tok)[1])
  /\ (pc = "handled" /\ \E i \in PrefixRounds : Len(Matches(res.trace[i].tok)) = 1)
       => uncertain_part = NULL

\* C8: a word that no earlier class takes and that is the prefix of one
\* adverb alone is taken for this adverb: it is added to the adverbs of the
\* clause, behind the word of the how mapping that waits if there is one;
\* only plainly is not added, it leaves the one empty adverb that keeps the
\* default away.  The round leaves no continuation: there is none after
\* the command unless another word of it was ambiguous
C8_UniqueAdverbPrefixAmended ==
  /\ \A i \in PrefixRounds :
       Len(Matches(res.trace[i].tok)) = 1 =>
         /\ res.trace[i].status = "run"
         /\ res.trace[i].cls = "adverb_prefix"
         /\ res.trace[i].adv =
              IF Matches(res.trace[i].tok)[1] = Word.plainly THEN << <<>> >>
              ELSE IF how_before(i) # NULL
                THEN Append(adv_before(i),
                            how_before(i) \o <<SP>> \o Matches(res.trace[i].tok)[1])
              ELSE Append(adv_before(i), Matches(res.trace[i].tok)[1])
         /\ res.trace[i].how = NULL \/ Matches(res.trace[i].tok)[1] = Word.plainly
  /\ (pc = "handled" /\ cmd.op = "do_feel" /\ ~ambiguous) => uncertain_part = NULL

\* C8, its case: "ang" was taken for angrily, and Alice smiles angrily
C8_Witness ==
  /\ pc = "handled"
  /\ cmd.words = <<Word.smile, Word.ang>>
  /\ res.ret = 1
  /\ res.trace[2].cls = "adverb_prefix" /\ res.trace[2].adv = <<Word.angrily>>
  /\ uncertain_part = NULL
  /\ res.told[this_player][2] = <<SP>> \o Word.smile \o <<SP>> \o Word.angrily

\* C9: a word that no earlier class takes and that is the prefix of two
\* adverbs or more ends the parse with the failure AmbiguousToken whatever
\* follows it; the failure lists the adverbs that start with the word in
\* lexical order, and a continuation is left
C9_AmbiguousAdverbPrefix ==
  \A i \in PrefixRounds :
    Len(Matches(res.trace[i].tok)) >= 2 =>
      /\ res.trace[i].status = "fail"
      /\ res.ret = 0
      /\ res.fail.kind = "AmbiguousToken"
      /\ res.fail.cands = Matches(res.trace[i].tok)
      /\ uncertain_part = res.trace[i].tok

-----------------------------------------------------------------------------
(* The clauses of a command put together (SpecFeel).                       *)

\* the word w stands in the text
contains(text, w) ==
  \E i \in 1..(Len(text) - Len(w) + 1) : SubSeq(text, i, i + Len(w) - 1) = w

\* the command was carried out
done == pc = "handled" /\ cmd.op = "do_feel" /\ res.ret = 1 /\ res.status = "ok"

\* C10: every object of the room is told the clauses of a command in
\* their order, after what opens the line: each clause is followed by a
\* comma, the clause before the last by " and" instead, the last by
\* nothing but the end of the line; feel_to_this_player() puts the same
\* pieces together for the actor
C10_ClauseJoiners ==
  done =>
    /\ Len(res.Y) = Len(res.bd)
    /\ \A o \in Objects :
         /\ Len(res.told[o]) = 2 * Len(res.Y) + 1
         /\ \A k \in 1..Len(res.Y) : contains(res.told[o][2 * k], res.bd[k][1])
         /\ \A k \in 1..(Len(res.Y) - 1) :
              res.told[o][2 * k + 1] = IF k = Len(res.Y) - 1 THEN <<SP, "and">> ELSE <<",">>
         /\ res.told[o][2 * Len(res.Y) + 1] \in {<<".", "\n">>, <<"\n">>}
    /\ feel_to_this_player(res.Y, 0) = SubSeq(res.told[this_player], 2, 2 * Len(res.Y))

\* C10, its case: three clauses, told to Bob as "a, b and c"
C10_Witness ==
  /\ done
  /\ cmd.words = <<Word.smile, Word.wave, Word.bob, Word.bow>>
  /\ Len(res.Y) = 3
  /\ contains(res.told["bob"][2], Word.smile) /\ res.told["bob"][3] = <<",">>
  /\ contains(res.told["bob"][4], Word.wave) /\ res.told["bob"][5] = <<SP, "and">>
  /\ contains(res.told["bob"][6], Word.bow) /\ res.told["bob"][7] = <<".", "\n">>

-----------------------------------------------------------------------------
(* The texts of one clause for its readers (SpecFeel).                     *)

\* the clauses of the command that was carried out
Clauses == IF done THEN 1..Len(res.Y) ELSE {}

\* the clause has one target, who is not the actor, and a place for it
one_target(k) ==
  /\ Len(res.Y[k][1]) = 1
  /\ res.Y[k][1][1] # this_player
  /\ " \nWHO" \in Range(res.Y[k][2])

\* the objects told the text for those who only look on
Bystanders(k) == Objects \ (Range(res.Y[k][1]) \cup {this_player})

\* what object o was told of clause k
text_of(o, k) == res.told[o][2 * k]

\* the clause before has the very targets of clause k
follows_same_targets(k) == k > 1 /\ Range(res.Y[k - 1][1]) = Range(res.Y[k][1])

\* C11 as stated: the one target T of a clause, not the actor, is told
\* "you" where the actor and those looking on are told the name of T, and
\* so the text of T is not the text of those looking on
C11_TargetToldYou ==
  \A k \in Clauses : one_target(k) =>
    LET T == res.Y[k][1][1] IN
    /\ contains(text_of(T, k), <<"you">>)
    /\ ~contains(text_of(T, k), CAP_NAME(T))
    /\ contains(text_of(this_player, k), CAP_NAME(T))
    /\ \A o \in Bystanders(k) :
         /\ contains(text_of(o, k), CAP_NAME(T))
         /\ text_of(o, k) # text_of(T, k)

\* C11, amended: the actor and those looking on are told the name of T,
\* or "him", "her", "it" in its place when the clause before has the same
\* targets; T is told "you" in both cases and never the text of those
\* looking on
C11_TargetToldYouAmended ==
  \A k \in Clauses : one_target(k) =>
    LET T == res.Y[k][1][1]
        named == IF follows_same_targets(k) THEN OBJECTIVE(T) ELSE CAP_NAME(T)
    IN
    /\ contains(text_of(T, k), <<"you">>)
    /\ ~contains(text_of(T, k), CAP_NAME(T))
    /\ ~contains(text_of(T, k), OBJECTIVE(T))
    /\ contains(text_of(this_player, k), named)
    /\ \A o \in Bystanders(k) :
         /\ contains(text_of(o, k), named)
         /\ ~contains(text_of(o, k), <<"you">>)
         /\ text_of(o, k) # text_of(T, k)

\* C11, its case: "smile bob wave bob" tells Bob "you" twice, Carol "Bob"
\* and then "him"
C11_Witness ==
  /\ done
  /\ cmd.words = <<Word.smile, Word.bob, Word.wave, Word.bob>>
  /\ one_target(1) /\ one_target(2)
  /\ contains(text_of("bob", 1), <<"you">>) /\ contains(text_of("bob", 2), <<"you">>)
  /\ contains(text_of("carol", 1), CAP_NAME("bob"))
  /\ contains(text_of("carol", 2), Word.him)

-----------------------------------------------------------------------------
(* The verb of each type and its ending (SpecShapes).                      *)

\* the types whose template marks the ending of the verb with $
MarkedTypes == {SIMP, DEFA, PREV, PHYS, SHRT, PERS}

\* the verb of clause k and the type the tables give it
verb_of(k) == res.bd[k][1]

type_of(k) == find_verb(Tables(1, <<>>), verb_of(k))[1]

\* C12: of a clause on a verb of a type that marks the ending, the actor
\* is told the bare verb after "You", every other object of the room (the
\* targets and those looking on) the verb ending in s after the name of
\* the actor
C12_VerbEndings ==
  \A k \in Clauses : type_of(k) \in MarkedTypes =>
    /\ res.told[this_player][1] = <<"You">>
    /\ contains(text_of(this_player, k), <<SP>> \o verb_of(k))
    /\ ~contains(text_of(this_player, k), <<SP>> \o verb_of(k) \o <<"s">>)
    /\ \A o \in Objects \ {this_player} :
         /\ res.told[o][1] = CAP_NAME(this_player)
         /\ contains(text_of(o, k), <<SP>> \o verb_of(k) \o <<"s">>)

\* C12, its case: "smile" is "You smile happily." to Alice and
\* "Alice smiles happily." to Carol
C12_Witness ==
  /\ done
  /\ cmd.words = <<Word.smile>>
  /\ res.told[this_player] =
       << <<"You">>, <<SP>> \o Word.smile \o <<SP>> \o Word.happily, <<".", "\n">> >>
  /\ res.told["carol"] =
       << CAP_NAME("alice"), <<SP>> \o Word.smile \o <<"s", SP>> \o Word.happily,
          <<".", "\n">> >>

-----------------------------------------------------------------------------
(* Clauses that want a target (SpecShapes).                                *)

\* a closed clause: <<verb, who, adv, mess, body>> of brokendown_data
Closed == IF parsed THEN 1..Len(res.bd) ELSE {}

\* the template the tables select for a clause on verb v without targets
template_alone(v) == find_verb(Tables(1, <<>>), v)[3]

\* the verb v wants a target: its type is PREV or PHYS, or its type is
\* SIMP, PERS or DEUX and the template selected has a place for one
wants_target(v) ==
  LET t == find_verb(Tables(1, <<>>), v)[1] IN
  \/ t \in {PREV, PHYS}
  \/ /\ t \in {SIMP, PERS, DEUX}
     /\ Range(template_alone(v)) \cap {" \nWHO", " \nPOSS", " \nTHEIR", " \nOBJ"} # {}

\* C13: a clause closed without targets on a verb that wants one is the
\* last thing the parse does: it fails with "Need person for verb <verb>."
\* and nobody is told anything, whether no target was named or except took
\* the targets away
C13_MissingTarget ==
  \A k \in Closed :
    (wants_target(res.bd[k][1]) /\ res.bd[k][2] = <<>>) =>
      /\ k = Len(res.bd)
      /\ res.status = "fail"
      /\ res.ret = 0
      /\ res.fail.kind = "MissingTarget"
      /\ res.fail.word = res.bd[k][1]
      /\ res.told = NoMessages

\* C13, its case: "ogle bob except bob" closes the clause of ogle with
\* the targets taken away again
C13_Witness ==
  /\ parsed
  /\ cmd.words = <<Word.ogle, Word.bob, Word.except, Word.bob>>
  /\ \E i \in 1..Len(res.trace) : res.trace[i].cls = "except" /\ res.trace[i].who = <<"bob">>
  /\ res.bd = << <<Word.ogle, <<>>, <<>>, <<>>, <<>> >> >>
  /\ res.fail.kind = "MissingTarget" /\ res.fail.word = Word.ogle

-----------------------------------------------------------------------------
(* Sentences without a verb and words that make no sense (SpecMeta).       *)

\* the words the player typed, the word suddenly among them
Typed == IF cmd.op = "suddenly" THEN <<Word.suddenly>> \o cmd.words ELSE cmd.words

\* a handler gave the words typed to webster
scanned ==
  pc = "handled" /\ cmd.op \in {"do_feel", "suddenly"} /\ res.status # "none" /\ ~res.merged

\* no round of the scan failed: the scan reached the end of the sentence
reached_end == \A r \in Rounds : r.status = "run"

\* C14: a sentence that webster scans to its end without meeting a verb
\* fails with "No verb?": the handler returns 0, no clause is reduced or
\* recorded and nobody is told anything
C14_NoVerb ==
  (scanned /\ reached_end /\ \A r \in Rounds : r.cls # "verb") =>
    /\ res.ret = 0
    /\ res.status = "fail"
    /\ res.fail.kind = "NoVerb"
    /\ res.Y = <<>>
    /\ res.bd = <<>>
    /\ res.told = NoMessages

\* C14, its case: "suddenly bob the": a person and a null word, no verb
C14_Witness ==
  /\ scanned
  /\ cmd.op = "suddenly"
  /\ cmd.words = <<Word.bob, Word.the>>
  /\ reached_end
  /\ Len(res.trace) = 2
  /\ res.trace[1].cls = "person" /\ res.trace[2].cls = "null"
  /\ res.fail.kind = "NoVerb"

\* the word t is of no class: no earlier class takes it and it is the
\* prefix of no person and no adverb
senseless(t) == Unhandled(t) /\ Matches(t) = <<>>

\* C15: a round of webster on a word of no class is the last one: the
\* handler returns 0 and the failure names the place of that word among
\* the words typed, counted from one, the word suddenly being the first
\* of a command it opens
C15_UnknownTokenPosition ==
  scanned =>
    \A i \in 1..Len(res.trace) :
      senseless(res.trace[i].tok) =>
        /\ i = Len(res.trace)
        /\ res.ret = 0
        /\ res.fail.kind = "UnknownToken"
        /\ res.fail.pos \in 1..Len(Typed)
        /\ Typed[res.fail.pos] = res.trace[i].tok
        /\ res.fail.pos = res.trace[i].e0 + (Len(Typed) - Len(res.q)) + 1
        /\ res.told = NoMessages

\* C15, its case: in "suddenly "hi yo" xyzzy" the fourth word makes no
\* sense
C15_Witness ==
  /\ scanned
  /\ cmd.op = "suddenly"
  /\ cmd.words = <<Word.qhi, Word.yoq, Word.xyzzy>>
  /\ res.trace[1].cls = "message"
  /\ res.trace[2].tok = Word.xyzzy
  /\ res.fail.kind = "UnknownToken" /\ res.fail.pos = 4 /\ res.fail.word = <<"fourth">>

-----------------------------------------------------------------------------
(* The name of the place of a word (SpecOrdinals).                         *)

Digits == {"0", "1", "2", "3", "4", "5", "6", "7", "8", "9"}

\* C16: the failure names the places 1 to 12 by a word, "first" to
\* "twelfth", and the places from 13 on by the number and st, nd, rd or
\* th, the place 13 by "13th"
C16_OrdinalNames ==
  (scanned /\ res.fail.kind = "UnknownToken") =>
    /\ res.fail.pos <= 12 => Len(res.fail.word) = 1 /\ res.fail.word[1] \notin Digits
    /\ res.fail.pos = 1 => res.fail.word = <<"first">>
    /\ res.fail.pos = 12 => res.fail.word = <<"twelfth">>
    /\ res.fail.pos >= 13 =>
         \E suffix \in {"st", "nd", "rd", "th"} :
           res.fail.word = to_string(res.fail.pos) \o <<suffix>>
    /\ res.fail.pos = 13 => res.fail.word = <<"1", "3", "th">>

-----------------------------------------------------------------------------
(* The text of a clause and the clauses before it (SpecFeel).              *)

\* clause k of the command reduced again from what brokendown_data holds
\* of it: the verb, the targets, the adverbs, the message, the body parts
clause_of(k) ==
  reduce_verb(res.bd[k][1], find_verb(Tables(1, <<>>), res.bd[k][1]),
              res.bd[k][2], res.bd[k][3], res.bd[k][4], res.bd[k][5]).Y

\* what o is told of the clause in a command that holds nothing else
text_alone(o, k) == feel(NoMessages, clause_of(k), 0)[o][1]

\* what o is told of the clause when it follows itself in a command
text_repeated(o, k) == feel(NoMessages, clause_of(k) \o clause_of(k), 0)[o][3]

\* the clause before clause k has the targets of clause k, and the actor
\* is not one of them
same_as_before(k) ==
  /\ follows_same_targets(k)
  /\ this_player \notin Range(res.Y[k][1])

\* C17 as stated: every object is told of a clause what it is told of the
\* same clause in any other command, whatever comes before the clause
C17_ClauseTextAlone ==
  \A k \in Clauses : \A o \in Objects : text_of(o, k) = text_alone(o, k)

\* C17, amended: what an object is told of a clause is the same in all
\* commands in which the clause before it has the same targets, and the
\* same in all commands in which it has not
C17_ClauseTextAmended ==
  \A k \in Clauses : \A o \in Objects :
    text_of(o, k) = IF same_as_before(k) THEN text_repeated(o, k) ELSE text_alone(o, k)

\* C17, its case: in "bow bob wave bob" Carol is told of "wave bob" what
\* she is told of it after itself, not what she is told of it alone
C17_Witness ==
  /\ done
  /\ cmd.words = <<Word.bow, Word.bob, Word.wave, Word.bob>>
  /\ same_as_before(2)
  /\ text_of("carol", 1) = text_alone("carol", 1)
  /\ text_of("carol", 2) = text_repeated("carol", 2)
  /\ text_of("carol", 2) # text_alone("carol", 2)
  /\ text_of("bob", 2) = text_alone("bob", 2)

-----------------------------------------------------------------------------
(* How long a question of the parser stays open (SpecReplies).             *)

\* C18: when do_feel has handled a command, a reply is awaited only if
\* the parse of this very command ended on an ambiguous word, and
\* uncertain_part is then that word: an uncertain_part stored by a
\* command before is gone, whether the command was put together with the
\* stored parts or not; a command is put together with stored parts only
\* if the command handled just before it left uncertain_part, and between
\* two commands the three parts stay as they are
C18_ContinuationLifetime ==
  [][ /\ (pc = "prompt" /\ pc' = "handled" /\ cmd'.op = "do_feel") =>
           /\ uncertain_part' # NULL =>
                /\ res'.fail.kind = "AmbiguousToken"
                /\ uncertain_part' = res'.trace[Len(res'.trace)].tok
           /\ res'.fail.kind # "AmbiguousToken" => uncertain_part' = NULL
           /\ res'.merged => (uncertain_part # NULL /\ starts_with(cmd'.words[1], uncertain_part))
      /\ pc = "handled" =>
           /\ UNCHANGED <<parsed_part, uncertain_part, unparsed_part>>
           /\ uncertain_part # NULL => res.fail.kind = "AmbiguousToken"
    ]_vars

\* C18, its case: a question was open and the command handled was no
\* reply to it: the stored parts are still there, uncertain_part is not
C18_Witness ==
  /\ pc = "handled" /\ cmd.op = "do_feel"
  /\ cmd.words = <<Word.bow, Word.bob>>
  /\ ~res.merged
  /\ res.status = "ok"
  /\ parsed_part = <<SP>> \o Word.smile
  /\ uncertain_part = NULL

-----------------------------------------------------------------------------
(* Commands that fail after their first clause (SpecFailures).             *)

\* do_feel has handled the command
felt == pc = "handled" /\ cmd.op = "do_feel"

\* C19: do_feel tells every object of the room of every clause of the
\* command, or tells nobody anything: when the parse fails, the clauses
\* closed before the failure are told to nobody
C19_AllOrNothing ==
  felt =>
    \/ /\ res.status = "ok"
       /\ Len(res.Y) = Len(res.bd)
       /\ \A o \in Objects : \A k \in 1..Len(res.bd) :
            contains(text_of(o, k), res.bd[k][1])
    \/ /\ res.status # "ok"
       /\ res.told = NoMessages

\* C19, its case: "bow bob ogle xyzzy" fails on its fourth word after
\* the clause of bow was closed
C19_Witness ==
  /\ felt
  /\ cmd.words = <<Word.bow, Word.bob, Word.ogle, Word.xyzzy>>
  /\ res.status = "fail" /\ res.fail.kind = "UnknownToken"
  /\ Len(res.Y) = 1 /\ res.Y[1][1] = <<"bob">>
  /\ res.told = NoMessages

\* C20: a parse that fails reports one of NoVerb, UnknownToken,
\* AmbiguousToken, MissingBackReference and MissingTarget
C20_FiveFailureKinds ==
  (felt /\ res.status = "fail") =>
    res.fail.kind \in {"NoVerb", "UnknownToken", "AmbiguousToken", "MissingBackReference",
                       "MissingTarget"}

-----------------------------------------------------------------------------
(* Where a clause begins and ends (SpecClauses).                           *)

\* a handler gave a sentence to webster
webstered == pc = "handled" /\ cmd.op \in {"do_feel", "suddenly"} /\ res.status # "none"

\* the rounds of the scan on a verb, in their order
verb_rounds ==
  SelectSeq([i \in 1..Len(res.trace) |-> i], LAMBDA i : res.trace[i].cls = "verb")

\* the targets, adverbs, message and body parts as round i left them;
\* round 0 is the beginning of the scan
gathered(i) ==
  IF i = 0 THEN << <<>>, <<>>, <<>>, <<>> >>
  ELSE <<res.trace[i].who, res.trace[i].adv, res.trace[i].mess, res.trace[i].body>>

\* the round that closes the clause of the j-th verb: the one before the
\* next verb, or the last one of the scan
closing_round(j) ==
  IF j < Len(verb_rounds) THEN verb_rounds[j + 1] - 1 ELSE Len(res.trace)

\* the clauses are recorded in the order of their verbs, each with what
\* the rounds up to its closing round gathered; a verb met while a verb is
\* pending leaves the four empty and exclusion mode off
clauses_in_order ==
  /\ Len(res.bd) <= Len(verb_rounds)
  /\ Len(res.bd) >= Len(verb_rounds) - 1
  /\ \A j \in 1..Len(res.bd) :
       res.bd[j] = <<res.trace[verb_rounds[j]].tok>> \o gathered(closing_round(j))
  /\ \A j \in 2..Len(verb_rounds) :
       res.trace[verb_rounds[j]].status = "run" =>
         /\ gathered(verb_rounds[j]) = gathered(0)
         /\ ~res.trace[verb_rounds[j]].except

\* C21 as stated: the clause closed when a verb is met holds what was
\* gathered since its own verb: at the round of its own verb the targets,
\* adverbs, message and body parts are empty, for the first clause like
\* for every other, and the clause is recorded with what the rounds up to
\* the next verb gathered; the clauses are in the order of their verbs
C21_ClauseSinceItsVerb ==
  webstered =>
    /\ clauses_in_order
    /\ \A j \in 1..(Len(verb_rounds) - 1) : gathered(verb_rounds[j]) = gathered(0)

\* C21, amended: the clause closed when a verb is met holds what was
\* gathered since the verb before its own, the first clause of a sentence
\* what was gathered since the sentence began, the words before its verb
\* among them; every clause after the first begins with the four empty and
\* exclusion mode off, and a word of the how mapping that waits for its
\* adverb goes on waiting; the clauses are in the order of their verbs
C21_ClauseSinceVerbBefore ==
  webstered =>
    /\ clauses_in_order
    /\ \A j \in 1..Len(verb_rounds) :
         res.trace[verb_rounds[j]].how = how_before(verb_rounds[j])
    /\ Len(verb_rounds) > 0 =>
         (res.trace[verb_rounds[1]].status = "run" =>
            gathered(verb_rounds[1]) = gathered(verb_rounds[1] - 1))

\* C21, its case: in "suddenly bob pat say" the clause of pat is
\* closed at say with Bob, who was named before pat, and the clause of say
\* begins empty
C21_Witness ==
  /\ webstered
  /\ cmd.op = "suddenly"
  /\ cmd.words = <<Word.bob, Word.pat, Word.say>>
  /\ verb_rounds = <<2, 3>>
  /\ res.bd = << <<Word.pat, <<"bob">>, <<>>, <<>>, <<>> >>,
                 <<Word.say, <<>>, <<>>, <<>>, <<>> >> >>
  /\ res.ret = 1

-----------------------------------------------------------------------------
(* The defaults of a verb (SpecClauses).                                   *)

\* the clauses the scan reduced
Reduced == IF webstered THEN 1..Len(res.Y) ELSE {}

\* the definition of the verb of clause k, and what the actor is told of
\* the clause with the placeholders of gloerp() still in it
verbdata_of(k) == find_verb(Tables(1, <<>>), res.bd[k][1])

actor_text(k) == res.Y[k][2]

\* default n of the verb of clause k (1 the adverb, 2 the message, 3 the
\* body part), NULL when the verb defines none
default_of(k, n) ==
  IF Len(verbdata_of(k)[2]) >= n THEN verbdata_of(k)[2][n] ELSE NULL

\* the template of the verb of clause k has the placeholder m
has_slot(k, m) == m \in Range(simple_template(res.bd[k][1], verbdata_of(k), res.bd[k][2]))

\* a message as the text shows it: the default 'nothing is shown without
\* its quote
shown(mess) == IF mess[1] = "'" THEN Tail(mess) ELSE mess

\* C22: the text of a clause shows the default adverb of its verb exactly
\* when the clause holds no adverb of its own (plainly counts as one), the
\* default message exactly when its message is empty and the default body
\* part exactly when it holds no body part, each only if the verb defines
\* the default; what the clause holds of its own is always shown
C22_DefaultsFillEmptySlots ==
  \A k \in Reduced :
    /\ has_slot(k, " \nHOW") =>
         /\ \A a \in Range(res.bd[k][3]) : contains(actor_text(k), a)
         /\ default_of(k, 1) # NULL =>
              (contains(actor_text(k), default_of(k, 1)) <=> res.bd[k][3] = <<>>)
         /\ (default_of(k, 1) = NULL /\ res.bd[k][3] = <<>>) =>
              \A a \in Range(adverbs) : ~contains(actor_text(k), a)
    /\ has_slot(k, " \nMSG") =>
         /\ contains(actor_text(k), res.bd[k][4])
         /\ default_of(k, 2) # NULL =>
              (contains(actor_text(k), shown(default_of(k, 2))) <=> res.bd[k][4] = <<>>)
    /\ has_slot(k, " \nWHERE") =>
         /\ \A b \in Range(res.bd[k][5]) : contains(actor_text(k), b)
         /\ default_of(k, 3) # NULL =>
              (contains(actor_text(k), default_of(k, 3)) <=> res.bd[k][5] = <<>>)

\* C22, its case: in "pat bob sadly say" the clause of pat has its own
\* adverb and the default body part, the clause of say the default message
C22_Witness ==
  /\ webstered
  /\ cmd.op = "do_feel"
  /\ cmd.words = <<Word.pat, Word.bob, Word.sadly, Word.say>>
  /\ res.ret = 1
  /\ res.bd[1] = <<Word.pat, <<"bob">>, <<Word.sadly>>, <<>>, <<>> >>
  /\ actor_text(1) = <<SP>> \o Word.pat \o <<" \nWHO", SP>> \o Word.sadly \o <<SP, "on the head">>
  /\ res.bd[2] = <<Word.say, <<>>, <<>>, <<>>, <<>> >>
  /\ actor_text(2) = <<" say", SP>> \o Tail(Word.nothing)

-----------------------------------------------------------------------------
(* Quoted messages (SpecMeta).                                             *)

\* the rounds of the scan on a word that begins with a double quote
QuoteRounds == {i \in 1..Len(res.trace) : res.trace[i].tok[1] = "\""}

\* the word at place p of the sentence ends the message opened at place
\* open: it ends with a double quote that is not the one that opens it
closes(p, open) ==
  /\ res.q[p][Len(res.q[p])] = "\""
  /\ p = open => Len(res.q[p]) > 1

\* the place of the first word that ends the message opened at place
\* open, the place of the last word of the sentence when none does
closing_place(open) ==
  IF \E p \in open..Len(res.q) : closes(p, open)
    THEN CHOOSE p \in open..Len(res.q) :
           closes(p, open) /\ \A p2 \in open..(p - 1) : ~closes(p2, open)
    ELSE Len(res.q)

\* the words from place open to place last with one space between them,
\* without the quote that opens them and the one that closes them
quoted(open, last) ==
  LET joined == implode(SubSeq(res.q, open, last), <<SP>>) IN
  IF closes(last, open) THEN SubSeq(joined, 2, Len(joined) - 1) ELSE Tail(joined)

\* C23: a word that begins with a double quote opens a message: the
\* message is that word and the words after it up to and with the first
\* one that ends with a double quote, one space between them and the two
\* quotes taken off; none of these words is looked at as a person, verb or
\* adverb, and the scan goes on at the word after the closing one; a
\* message that no word closes takes the rest of the sentence
C23_QuotedMessage ==
  webstered =>
    \A i \in QuoteRounds :
      LET open == res.trace[i].e0 + 1
          last == closing_place(open)
      IN
      /\ res.trace[i].cls = "message"
      /\ res.trace[i].status = "run"
      /\ res.trace[i].mess = quoted(open, last)
      /\ res.trace[i].e1 = IF closes(last, open) THEN last ELSE Len(res.q) + 1
      /\ \A j \in 1..Len(res.trace) : j # i => res.trace[j].e0 + 1 \notin open..last
      /\ (i < Len(res.trace)) => res.trace[i + 1].e0 + 1 = last + 1
      /\ (i = Len(res.trace)) => last = Len(res.q)

\* C23, its case: in "smile "hi yo" bob" the message is hi yo, and Bob,
\* the word after it, is the next word looked at
C23_Witness ==
  /\ webstered
  /\ cmd.words = <<Word.smile, Word.qhi, Word.yoq, Word.bob>>
  /\ res.trace[2].cls = "message"
  /\ res.trace[2].mess = <<"h", "i", SP, "y", "o">>
  /\ Len(res.trace) = 3
  /\ res.trace[3].tok = Word.bob /\ res.trace[3].cls = "person"
  /\ res.ret = 1

-----------------------------------------------------------------------------
(* The classes of words in their order (SpecPriority).                     *)

\* the persons of the room whose name begins with t
named_like(t) == {o \in Range(get_persons) : starts_with(NAME(o), t)}

\* the rounds on a word the switch of webster has no case for
DefaultRounds ==
  {i \in 1..Len(res.trace) :
     /\ res.trace[i].tok[1] # "\""
     /\ res.trace[i].tok \notin get_how \cup NullWords \cup SelfWords \cup BackWords
                                 \cup GroupWords \cup ExceptWords \cup {Word.plainly}}

\* round i took its word for the person o
taken_for(i, o) ==
  /\ res.trace[i].cls \in {"person", "person_prefix"}
  /\ res.trace[i].status = "run"
  /\ res.trace[i].who = IF res.trace[i].except THEN SUB_ARRAY(who_before(i), <<o>>)
                        ELSE Append(who_before(i), o)

\* the word is spelled like a verb, an adverb or a body part
known_word(t) ==
  \/ t \in DOMAIN verbs \cup DOMAIN xverbs
  \/ t \in Range(adverbs) \cup Range(xadverbs)
  \/ t \in DOMAIN get_bodydata

\* C24 as stated: a word that is the name of one person of the room or
\* the beginning of the name of one person alone is taken for that
\* person, whether it is spelled like a verb, an adverb or a body part or
\* not
C24_PersonPrefixFirst ==
  webstered =>
    \A i \in DefaultRounds :
      Cardinality(named_like(res.trace[i].tok)) = 1 =>
        \E o \in named_like(res.trace[i].tok) : taken_for(i, o)

\* C24, amended: a word that is the whole name of a person of the room is
\* taken for that person; if not, a word spelled like a verb is a verb, one
\* spelled like an adverb an adverb, one spelled like a body part a body
\* part; only a word that is none of these is taken for the one person
\* whose name begins with it
C24_ExactWordsFirst ==
  webstered =>
    \A i \in DefaultRounds :
      LET t == res.trace[i].tok IN
      IF \E o \in Range(get_persons) : NAME(o) = t
        THEN \E o \in Range(get_persons) : NAME(o) = t /\ taken_for(i, o)
      ELSE IF t \in DOMAIN verbs \cup DOMAIN xverbs THEN res.trace[i].cls = "verb"
      ELSE IF t \in Range(adverbs) \cup Range(xadverbs) THEN res.trace[i].cls = "adverb"
      ELSE IF t \in DOMAIN get_bodydata THEN res.trace[i].cls = "body"
      ELSE Cardinality(named_like(t)) = 1 =>
             /\ res.trace[i].cls = "person_prefix"
             /\ \E o \in named_like(t) : taken_for(i, o)

\* C24, its case: in "smile bo c", typed when other objects have added
\* the verb bo, bo is a verb although only Bob's name begins with it, and
\* c is Carol
C24_Witness ==
  /\ webstered
  /\ cmd.words = <<Word.smile, Word.bo, Word.c>>
  /\ Word.bo \in DOMAIN xverbs
  /\ named_like(Word.bo) = {"bob"}
  /\ res.trace[2].cls = "verb"
  /\ res.trace[3].cls = "person_prefix" /\ res.trace[3].who = <<"carol">>

-----------------------------------------------------------------------------
(* Exclusion mode (SpecTargets).                                           *)

\* exclusion mode as round i of the scan found it
except_before(i) == IF i = 1 THEN FALSE ELSE res.trace[i - 1].except

\* the persons the word of round i adds to the targets outside exclusion
\* mode
would_add(i) ==
  CASE res.trace[i].cls = "group" -> SUB_ARRAY(get_persons, <<this_player>>)
    [] res.trace[i].cls = "self" -> <<this_player>>
    [] res.trace[i].cls = "backref" -> last_who(i)
    [] OTHER -> <<CHOOSE o \in Range(get_persons) : starts_with(NAME(o), res.trace[i].tok)>>

\* the rounds that went on after a word that stands for persons
PersonRounds ==
  {i \in 1..Len(res.trace) :
     /\ res.trace[i].cls \in {"group", "self", "backref", "person", "person_prefix"}
     /\ res.trace[i].status = "run"}

\* C25: except and but turn exclusion mode on when it is off and off when
\* it is on, and leave the targets as they are; while the mode is on, a
\* word that stands for persons takes these persons out of the targets of
\* the clause and leaves every other target in, so that taking out persons
\* who are no targets changes nothing; while it is off the word adds them
C25_ExceptTogglesAndRemoves ==
  webstered =>
    \A i \in 1..Len(res.trace) :
      /\ (res.trace[i].cls = "except" /\ res.trace[i].status = "run") =>
           /\ res.trace[i].except = ~except_before(i)
           /\ res.trace[i].who = who_before(i)
      /\ i \in PersonRounds =>
           /\ res.trace[i].except = except_before(i)
           /\ res.trace[i].who = IF except_before(i)
                                   THEN SUB_ARRAY(who_before(i), would_add(i))
                                   ELSE who_before(i) \o would_add(i)
           /\ (except_before(i) /\ Range(would_add(i)) \cap Range(who_before(i)) = {}) =>
                res.trace[i].who = who_before(i)

-----------------------------------------------------------------------------
(* Adverbs of several words (SpecPhrases).                                 *)

\* the rounds that took the beginning of one adverb for that adverb
AdverbPrefixRounds ==
  {i \in 1..Len(res.trace) :
     res.trace[i].cls = "adverb_prefix" /\ res.trace[i].status = "run"}

\* the adverb round i added, without the word of the how mapping before it
matched(i) ==
  LET a == res.trace[i].adv[Len(res.trace[i].adv)] IN
  IF a = <<>> THEN Word.plainly
  ELSE IF how_before(i) # NULL THEN SubSeq(a, Len(how_before(i)) + 2, Len(a))
  ELSE a

\* the words of that adverb
phrase_words(i) == my_explode(matched(i), SP)

\* the number of words of the sentence round i went past, and these words
\* as they were typed
consumed(i) == res.trace[i].e1 - res.trace[i].e0

typed(i) ==
  implode(SubSeq(res.q, res.trace[i].e0 + 1, res.trace[i].e0 + consumed(i)), <<SP>>)

\* the table that holds the adverb a: adverbs is asked before xadverbs
table_of(a) == IF a \in Range(adverbs) THEN adverbs ELSE xadverbs

-----------------------------------------------------------------------------
(* What a question of the parser keeps of the command (SpecPhrases).       *)

\* the words of a string
words_of(x) == SUB_ARRAY(my_explode(x, SP), << <<>> >>)

-----------------------------------------------------------------------------
(* One text of a clause for each person (SpecFeel).                        *)

\* prev of feel() for clause k
prev_of(k) == same_targets(IF k = 1 THEN <<>> ELSE res.Y[k - 1][1], res.Y[k][1])

\* the text of clause k for the actor, for the target o and for those
\* looking on
for_actor(k) == gloerp(res.Y[k][2], res.Y[k][1], this_player, prev_of(k))

for_target(k, o) == gloerp(res.Y[k][3], res.Y[k][1], o, prev_of(k))

for_others(k) == gloerp(res.Y[k][4], res.Y[k][1], NoObject, prev_of(k))

\* C28: of every clause of a command that was carried out every person of
\* the room is told one text and no more: the actor the text for the
\* actor, a target or not; every target but the actor the text for that
\* target, once even when named twice; every other person the text for
\* those looking on
C28_OneTextEach ==
  \A k \in Clauses : \A o \in Range(get_persons) :
    /\ Len(res.told[o]) = 2 * Len(res.Y) + 1
    /\ \A j \in 1..(Len(res.Y) - 1) : res.told[o][2 * j + 1] \in {<<",">>, <<SP, "and">>}
    /\ text_of(o, k) = IF o = this_player THEN for_actor(k)
                       ELSE IF o \in Range(res.Y[k][1]) THEN for_target(k, o)
                       ELSE for_others(k)

\* C28, its case: "smile bob bob me": Bob, named twice, is told the text
\* for him once, Alice the text for the actor, Carol the text for those
\* looking on
C28_Witness ==
  /\ done
  /\ cmd.words = <<Word.smile, Word.bob, Word.bob, Word.me>>
  /\ res.Y[1][1] = <<"bob", "bob", "alice">>
  /\ res.told["bob"] = <<CAP_NAME("alice"), for_target(1, "bob"), <<".", "\n">> >>
  /\ res.told["alice"] = << <<"You">>, for_actor(1), <<".", "\n">> >>
  /\ res.told["carol"] = <<CAP_NAME("alice"), for_others(1), <<".", "\n">> >>
  /\ contains(for_target(1, "bob"), <<"you">>)
  /\ contains(for_others(1), CAP_NAME("bob"))

-----------------------------------------------------------------------------
(* Names and pronouns of the targets (SpecPronouns).                       *)

\* clause k has the targets of the clause right before it, as a set, and
\* the actor is none of them
refers_back(k) ==
  /\ k > 1
  /\ Range(res.Y[k][1]) = Range(res.Y[k - 1][1])
  /\ this_player \notin Range(res.Y[k][1])

\* the targets t one by one for the reader r: by name, the reader as you
by_name(m, t, r) ==
  implode_nicely([i \in 1..Len(t) |-> IF m = " \nWHO" THEN WHO(t[i], r) ELSE POSS(t[i], r)],
                 and_word)

\* the targets t as one pronoun for the reader r
by_pronoun(m, t, r) ==
  IF m = " \nWHO"
    THEN (IF Len(t) > 1 THEN (IF r \in Range(t) THEN <<"all of you">> ELSE <<"them">>)
          ELSE IF t[1] = r THEN <<"you">> ELSE OBJECTIVE(t[1]))
    ELSE (IF Len(t) > 1 THEN (IF r \in Range(t) THEN <<"your">> ELSE <<"their">>)
          ELSE IF t[1] = r THEN <<"your">> ELSE POSSESSIVE(t[1]))

\* the text q with its WHO and POSS slots filled by pronoun or by name
RECURSIVE fill_slots(_, _, _, _)
fill_slots(q, t, r, pron) ==
  IF Len(q) = 0 THEN <<>>
  ELSE (IF q[1] \in {" \nWHO", " \nPOSS"}
          THEN <<SP>> \o (IF pron THEN by_pronoun(q[1], t, r) ELSE by_name(q[1], t, r))
        ELSE IF q[1] \in Placeholders THEN <<SP>> \o gloerp_slot(q[1], t, r, FALSE)
        ELSE <<q[1]>>)
       \o fill_slots(Tail(q), t, r, pron)

\* the text of clause k before its slots are filled, and its reader
unfilled(o, k) ==
  IF o = this_player THEN res.Y[k][2]
  ELSE IF o \in Range(res.Y[k][1]) THEN res.Y[k][3]
  ELSE res.Y[k][4]

reader(o, k) == IF o = this_player \/ o \in Range(res.Y[k][1]) THEN o ELSE NoObject

-----------------------------------------------------------------------------
(* The loop of webster comes to its end (SpecProgress).                    *)

\* round i of the loop went on to the next round
went_on(i) == res.trace[i].status = "run"

\* C30: the loop of webster goes through the sentence once: every round
\* begins on a word of the sentence, where the round before it ended, and
\* a round that does not return ends past the word it began on, a quoted
\* message and an adverb of several words included, so there are no more
\* rounds than words; a command put together from a reply is parsed once,
\* and a question is left pending after it only when that parse asked one
C30_ParseEnds ==
  parsed =>
    /\ Len(res.trace) <= Len(res.q)
    /\ \A i \in 1..Len(res.trace) :
         /\ res.trace[i].e0 = IF i = 1 THEN 0 ELSE res.trace[i - 1].e1
         /\ res.trace[i].e0 < Len(res.q)
         /\ went_on(i) => res.trace[i].e1 > res.trace[i].e0
         /\ ~went_on(i) => i = Len(res.trace)
    /\ res.status = "ok" => res.trace # <<>> /\ res.trace[Len(res.trace)].e1 >= Len(res.q)
    /\ res.merged =>
         (uncertain_part # NULL => res.status = "fail" /\ res.fail.kind = "AmbiguousToken")

\* C30, its case: "sadly" typed after "smile "hi yo" s" with the adverb
\* like a duck known: the command put together is parsed in three rounds,
\* the second one goes past the two words of the message, and nothing is
\* left pending
C30_Witness ==
  /\ parsed /\ res.merged /\ res.status = "ok"
  /\ cmd.words = <<Word.sadly>>
  /\ res.q = <<Word.smile, Word.qhi, Word.yoq, Word.sadly>>
  /\ Len(res.trace) = 3
  /\ res.trace[2].cls = "message" /\ res.trace[2].e0 = 1 /\ res.trace[2].e1 = 3
  /\ uncertain_part = NULL
  /\ Word.like_a_duck \in Range(xadverbs)

=============================================================================
